---- MODULE Spec2Model ----
(***************************************************************************)
(* Model of the `deadlock` crate's single-threaded containers:             *)
(*   unsync::SlotMap  (src/src/unsync/slotmap.rs)                          *)
(*   unsync::SlotHeap (src/src/unsync/slotheap.rs)                         *)
(* Every container operation is a pure operator over the container value,  *)
(* written after the Rust method of the same name; the actions apply them. *)
(* IDs and positions are 0-based as in the source; TLA+ sequences are      *)
(* 1-based, so position i of a Vec is element i + 1 of the sequence.       *)
(***************************************************************************)
EXTENDS Integers, Sequences, FiniteSets, TLC

VARIABLES
    map,      \* unsync::SlotMap<T>: [entries, len, next]
    op,       \* the last call made on the container and what it returned
    shadow,   \* history: id -> value last stored under the id, for live ids
    net,      \* history: inserts minus successful removes since the last clear
    freed,    \* history: ids freed by remove and not yet handed out again, newest first
    heap,     \* unsync::SlotHeap<K, V>: [entries, indices]
    guard,    \* the outstanding PeekMut / PeekKeyMut / RefMut / RefKeyMut or iterator, if any
    balance,  \* history: key -> times inserted minus times returned by pop or remove
    rwlock,   \* sync::SlotHeap.inner's RwLock around `heap`, if the heap is wrapped
    smap,     \* sync::SlotMap<T>: [shards, rr], a shard being [inner, len, writer, readers]
    threads   \* per thread: the call in progress, its locals and what it has received

mapVars == <<map, net, freed>>
heapVars == <<heap, guard, balance>>
syncVars == <<rwlock, smap, threads>>
vars == <<map, shadow, net, freed, heap, guard, balance, rwlock, smap, threads, op>>

----------------------------------------------------------------------------
(* Bounds of the exploration.                                               *)

\* largest backing-vector length the exploration lets a SlotMap grow to
MaxSlots == 3
\* values stored in a SlotMap are 0..MaxVal
MaxVal == 1

\* largest number of elements the exploration lets a SlotHeap hold when the
\* program only inserts, pops and removes
MaxHeap == 6
\* largest number of elements of a SlotHeap when the program uses every
\* operation and the guards
MaxGuarded == 4
\* comparable keys of a SlotHeap are 0..MaxKey
MaxKey == 1
\* values stored in a SlotHeap are 0..MaxHeapVal
MaxHeapVal == 0
\* largest number of elements of a SlotHeap when the program stores the
\* values 0..MaxItemVal
MaxValued == 3
MaxItemVal == 1
\* largest number of elements of a SlotHeap, and largest insertion stamp,
\* when the program stores insertion stamps as values
MaxTied == 4
MaxStamp == 5

\* threads that call a sync::SlotMap concurrently
NumThreads == 2
\* inserts, and then removes, each thread makes in the insert-remove program
OpsPerThread == 3

\* values the spawning thread inserts before the threads start
Populated == 5
\* calls each thread makes in the swap programs
MaxCalls == 1
\* largest shard count asked of with_num_shards
MaxShardArg == 130
\* bits of a usize word, scaled down
WordBits == 8
\* inserts of the id-packing program
MaxPacked == 6
\* largest shard count of the shard-selection program
MaxSelectShards == 32
\* calls each thread makes in the insert / remove / lazy-insert program
MaxOps == 2
\* largest value the threads store
MaxMapVal == 0

\* the smallest shard count with_num_shards accepts; the shared map has
\* this many shards
MinShards == 4

Values == 0..MaxVal
\* caller-provided ids: every position up to MaxSlots, so that at least one
\* id is always out of bounds
Ids == 0..MaxSlots

----------------------------------------------------------------------------
(* Option<T> and Result<T, usize>.                                          *)

None == <<>>
Some(x) == <<x>>

Ok(v) == [ok |-> TRUE, v |-> v]
Err(n) == [ok |-> FALSE, v |-> n]

\* Vec indexing, 0-based
At(s, i) == s[i + 1]
SetAt(s, i, x) == [s EXCEPT ![i + 1] = x]

----------------------------------------------------------------------------
(* unsync::SlotMap                                                          *)

SlotMap_new == [entries |-> <<>>, len |-> 0, next |-> 0]

\* faulty clear: the live count survives the clear
SlotMap_clear_keep_len(m) == [entries |-> <<>>, len |-> m.len, next |-> 0]

\* faulty clear: the entries are not dropped
SlotMap_clear_keep_entries(m) == [entries |-> m.entries, len |-> 0, next |-> 0]

SlotMap_clear(m) == [entries |-> <<>>, len |-> 0, next |-> 0]

SlotMap_len(m) == m.len

SlotMap_is_empty(m) == m.len = 0

\* faulty contains: bounds check only, the slot's tag is not looked at
SlotMap_contains_bounds_only(m, id) ==
    /\ id >= 0
    /\ id < Len(m.entries)

\* self.entries.get(id).is_some_and(Result::is_ok)
SlotMap_contains(m, id) ==
    /\ id >= 0
    /\ id < Len(m.entries)
    /\ At(m.entries, id).ok

\* self.entries.get(id)?.okok()
SlotMap_get(m, id) ==
    IF id >= 0 /\ id < Len(m.entries)
    THEN IF At(m.entries, id).ok THEN Some(At(m.entries, id).v) ELSE None
    ELSE None

\* get_unchecked: the caller guarantees a live id
SlotMap_get_unchecked(m, id) == At(m.entries, id).v

\* *get_unchecked_mut(id) = v
SlotMap_set_unchecked(m, id, v) ==
    [m EXCEPT !.entries = SetAt(m.entries, id, Ok(v))]

\* get_mut(id) followed by a store through the returned reference
SlotMap_get_mut_store(m, id, v) ==
    IF id >= 0 /\ id < Len(m.entries) /\ At(m.entries, id).ok
    THEN [m |-> SlotMap_set_unchecked(m, id, v), ret |-> Some(v)]
    ELSE [m |-> m, ret |-> None]

\* faulty insert: the value is always appended, free slots are not reused
SlotMap_insert_append(m, value) ==
    [m  |-> [entries |-> Append(m.entries, Ok(value)),
             len     |-> m.len + 1,
             next    |-> m.next],
     id |-> Len(m.entries)]

\* faulty insert: the cursor is advanced by one also when a free slot is reused
SlotMap_insert_bump(m, value) ==
    LET id == m.next IN
    IF Len(m.entries) = id
    THEN [m  |-> [entries |-> Append(m.entries, Ok(value)),
                  len     |-> m.len + 1,
                  next    |-> id + 1],
          id |-> id]
    ELSE [m  |-> [entries |-> SetAt(m.entries, id, Ok(value)),
                  len     |-> m.len + 1,
                  next    |-> id + 1],
          id |-> id]

SlotMap_insert(m, value) ==
    LET id == m.next IN
    IF Len(m.entries) = id
    THEN [m  |-> [entries |-> Append(m.entries, Ok(value)),
                  len     |-> m.len + 1,
                  next    |-> id + 1],
          id |-> id]
    ELSE [m  |-> [entries |-> SetAt(m.entries, id, Ok(value)),
                  len     |-> m.len + 1,
                  next    |-> At(m.entries, id).v],
          id |-> id]

\* faulty remove: the slot keeps its value, only len and the cursor change
SlotMap_remove_unchecked_keep(m, id) ==
    [m     |-> [entries |-> m.entries,
                len     |-> m.len - 1,
                next    |-> m.next],
     value |-> At(m.entries, id).v]

\* faulty remove: the freed slot is not made the head of the free list
SlotMap_remove_unchecked_nolink(m, id) ==
    [m     |-> [entries |-> SetAt(m.entries, id, Err(m.next)),
                len     |-> m.len - 1,
                next    |-> m.next],
     value |-> At(m.entries, id).v]

\* faulty remove: the cursor is moved before the link is written, so the
\* freed slot links to itself
SlotMap_remove_unchecked_selflink(m, id) ==
    [m     |-> [entries |-> SetAt(m.entries, id, Err(id)),
                len     |-> m.len - 1,
                next    |-> id],
     value |-> At(m.entries, id).v]

SlotMap_remove_unchecked(m, id) ==
    [m     |-> [entries |-> SetAt(m.entries, id, Err(m.next)),
                len     |-> m.len - 1,
                next    |-> id],
     value |-> At(m.entries, id).v]

SlotMap_remove(m, id) ==
    IF ~SlotMap_contains(m, id)
    THEN [m |-> m, ret |-> None]
    ELSE LET r == SlotMap_remove_unchecked(m, id)
         IN  [m |-> r.m, ret |-> Some(r.value)]

\* faulty swap: the second value is copied over the first and not exchanged
SlotMap_swap_unchecked_copy(m, id0, id1) ==
    [m EXCEPT !.entries = [m.entries EXCEPT ![id0 + 1] = At(m.entries, id1)]]

SlotMap_swap_unchecked(m, id0, id1) ==
    [m EXCEPT !.entries =
        [m.entries EXCEPT ![id0 + 1] = At(m.entries, id1),
                          ![id1 + 1] = At(m.entries, id0)]]

SlotMap_swap(m, id0, id1) ==
    IF ~(SlotMap_contains(m, id0) /\ SlotMap_contains(m, id1))
    THEN [m |-> m, ret |-> None]
    ELSE IF id0 # id1
         THEN [m |-> SlotMap_swap_unchecked(m, id0, id1), ret |-> Some(<<>>)]
         ELSE [m |-> m, ret |-> Some(<<>>)]

\* prepare_lazy_insert(): the slot insert would use is taken off the free
\* list (or pushed) and left free; len is not changed
SlotMap_prepare_lazy_insert(m) ==
    LET id == m.next IN
    IF Len(m.entries) = id
    THEN [m  |-> [entries |-> Append(m.entries, Err(id + 1)),
                  len     |-> m.len,
                  next    |-> id + 1],
          id |-> id]
    ELSE [m  |-> [entries |-> m.entries,
                  len     |-> m.len,
                  next    |-> At(m.entries, id).v],
          id |-> id]

\* commit_lazy_insert(id, value): the value is stored in the reserved slot
\* and len is incremented
SlotMap_commit_lazy_insert(m, id, value) ==
    [entries |-> SetAt(m.entries, id, Ok(value)),
     len     |-> m.len + 1,
     next    |-> m.next]

\* drop_lazy_insert(id): the reserved slot becomes the head of the free list
SlotMap_drop_lazy_insert(m, id) ==
    [entries |-> SetAt(m.entries, id, Err(m.next)),
     len     |-> m.len,
     next    |-> id]

----------------------------------------------------------------------------
(* Keys. K is any PartialOrd type: the comparable keys are the integers     *)
(* 0..MaxKey; NaN is a key that partial_cmp cannot compare with any key,    *)
(* itself included (as f64::NAN).                                           *)

Keys == 0..MaxKey
NaN == 0 - 1
PKeys == Keys \cup {NaN}
HeapValues == 0..MaxHeapVal
\* caller-provided heap ids: every index-map position and one past them
HeapIds == 0..MaxHeap
GuardedIds == 0..MaxGuarded
ItemValues == 0..MaxItemVal
ValuedIds == 0..MaxValued
Stamps == 1..MaxStamp
TiedIds == 0..MaxTied

\* K::partial_cmp
partial_cmp(x, y) ==
    IF x = NaN \/ y = NaN THEN None
    ELSE IF x < y THEN Some("Less")
    ELSE IF x = y THEN Some("Equal")
    ELSE Some("Greater")

\* usize::cmp
usize_cmp(x, y) ==
    IF x < y THEN "Less" ELSE IF x = y THEN "Equal" ELSE "Greater"

----------------------------------------------------------------------------
(* util::swap                                                               *)

swap_unchecked(slice, index0, index1) ==
    [slice EXCEPT ![index0 + 1] = At(slice, index1),
                  ![index1 + 1] = At(slice, index0)]

\* reads vec[index], copies the last element over it and shortens the vec
swap_remove_unchecked(vec, index) ==
    LET len == Len(vec) IN
    [vec   |-> SubSeq(SetAt(vec, index, At(vec, len - 1)), 1, len - 1),
     value |-> At(vec, index)]

----------------------------------------------------------------------------
(* unsync::SlotHeap                                                         *)

Entry(key, value, id) == [item |-> <<key, value>>, id |-> id]

\* faulty comparator: the id tiebreak is left out when the keys are equal
\* faulty comparison: equal keys are ordered by descending id
Entry_cmp_id_reversed(a, b) ==
    LET id_cmp == usize_cmp(b.id, a.id)
        c == partial_cmp(a.item[1], b.item[1])
    IN  IF c = None THEN id_cmp
        ELSE IF c[1] = "Equal" THEN id_cmp ELSE c[1]

Entry_cmp_no_tiebreak(a, b) ==
    LET c == partial_cmp(a.item[1], b.item[1]) IN
    IF c = None THEN usize_cmp(a.id, b.id) ELSE c[1]

\* Ord for Entry: key order, then id order when the keys are equal or
\* cannot be compared
Entry_cmp(a, b) ==
    LET id_cmp == usize_cmp(a.id, b.id)
        c == partial_cmp(a.item[1], b.item[1])
    IN  IF c = None THEN id_cmp
        ELSE IF c[1] = "Equal" THEN id_cmp ELSE c[1]

\* a < b through PartialOrd for Entry
Entry_lt(a, b) == Entry_cmp(a, b) = "Less"

SlotHeap_new == [entries |-> <<>>, indices |-> SlotMap_new]

SlotHeap_clear(h) == [entries |-> <<>>, indices |-> SlotMap_clear(h.indices)]

SlotHeap_len(h) == Len(h.entries)

SlotHeap_is_empty(h) == Len(h.entries) = 0

SlotHeap_contains(h, id) == SlotMap_contains(h.indices, id)

SlotHeap_get_index(h, id) == SlotMap_get(h.indices, id)

SlotHeap_get_unchecked_index(h, id) == SlotMap_get_unchecked(h.indices, id)

\* faulty swap_entries: the entries are exchanged, the index map is not updated
SlotHeap_swap_entries_no_mirror(h, index0, index1) ==
    [h EXCEPT !.entries = swap_unchecked(h.entries, index0, index1)]

\* faulty swap_entries: only the first of the two ids is updated in the index map
SlotHeap_swap_entries_half_mirror(h, index0, index1) ==
    LET entries == swap_unchecked(h.entries, index0, index1)
        id0 == At(entries, index0).id
    IN  [entries |-> entries,
         indices |-> SlotMap_set_unchecked(h.indices, id0, index0)]

SlotHeap_swap_entries(h, index0, index1) ==
    LET entries == swap_unchecked(h.entries, index0, index1)
        id0 == At(entries, index0).id
        id1 == At(entries, index1).id
    IN  [entries |-> entries,
         indices |-> SlotMap_set_unchecked(
                        SlotMap_set_unchecked(h.indices, id0, index0), id1, index1)]

SlotHeap_next_up(h, now) ==
    IF now = 0 THEN None
    ELSE LET up == (now - 1) \div 2 IN
         IF Entry_lt(At(h.entries, now), At(h.entries, up)) THEN Some(up) ELSE None

\* faulty next_down: the left child is always the one compared
SlotHeap_next_down_left_only(h, now) ==
    LET left == now * 2 + 1 IN
    IF left < Len(h.entries)
    THEN IF Entry_lt(At(h.entries, left), At(h.entries, now)) THEN Some(left) ELSE None
    ELSE None

SlotHeap_next_down(h, now) ==
    LET now_item == At(h.entries, now)
        left == now * 2 + 1
        right == now * 2 + 2
    IN  IF right < Len(h.entries)
        THEN IF Entry_lt(At(h.entries, left), At(h.entries, right))
             THEN IF Entry_lt(At(h.entries, left), now_item) THEN Some(left) ELSE None
             ELSE IF Entry_lt(At(h.entries, right), now_item) THEN Some(right) ELSE None
        ELSE IF left < Len(h.entries)
             THEN IF Entry_lt(At(h.entries, left), now_item) THEN Some(left) ELSE None
             ELSE None

\* returns the heap and the position the element came to rest at
RECURSIVE SlotHeap_heapify_up(_, _)
SlotHeap_heapify_up(h, now) ==
    LET up == SlotHeap_next_up(h, now) IN
    IF up = None THEN [h |-> h, now |-> now]
    ELSE SlotHeap_heapify_up(SlotHeap_swap_entries(h, now, up[1]), up[1])

RECURSIVE SlotHeap_heapify_down(_, _)
SlotHeap_heapify_down(h, now) ==
    LET down == SlotHeap_next_down(h, now) IN
    IF down = None THEN h
    ELSE SlotHeap_heapify_down(SlotHeap_swap_entries(h, now, down[1]), down[1])

\* faulty heapify: sift-down only
SlotHeap_heapify_down_only(h, now) == SlotHeap_heapify_down(h, now)

\* faulty heapify: sift-up only
SlotHeap_heapify_up_only(h, now) == SlotHeap_heapify_up(h, now).h

SlotHeap_heapify(h, now) ==
    LET r == SlotHeap_heapify_up(h, now) IN SlotHeap_heapify_down(r.h, r.now)

SlotHeap_insert(h, key, value) ==
    LET r == SlotMap_insert(h.indices, Len(h.entries))
        entry == Entry(key, value, r.id)
        pushed == [entries |-> Append(h.entries, entry), indices |-> r.m]
    IN  [h  |-> SlotHeap_heapify_up(pushed, Len(pushed.entries) - 1).h,
         id |-> r.id]

\* faulty pop: the index map keeps the popped id when the last element goes
SlotHeap_pop_unchecked_keep_index(h) ==
    IF Len(h.entries) = 1
    THEN [h |-> [entries |-> <<>>, indices |-> h.indices],
          item |-> At(h.entries, 0).item]
    ELSE LET sr == swap_remove_unchecked(h.entries, 0)
             removed == SlotMap_remove_unchecked(h.indices, sr.value.id).m
             id == At(sr.vec, 0).id
             fixed == [entries |-> sr.vec,
                       indices |-> SlotMap_set_unchecked(removed, id, 0)]
         IN  [h |-> SlotHeap_heapify_down(fixed, 0), item |-> sr.value.item]

SlotHeap_pop_unchecked(h) ==
    IF Len(h.entries) = 1
    THEN [h |-> [entries |-> <<>>, indices |-> SlotMap_clear(h.indices)],
          item |-> At(h.entries, 0).item]
    ELSE LET sr == swap_remove_unchecked(h.entries, 0)
             removed == SlotMap_remove_unchecked(h.indices, sr.value.id).m
             id == At(sr.vec, 0).id
             fixed == [entries |-> sr.vec,
                       indices |-> SlotMap_set_unchecked(removed, id, 0)]
         IN  [h |-> SlotHeap_heapify_down(fixed, 0), item |-> sr.value.item]

SlotHeap_pop(h) ==
    IF Len(h.entries) # 0
    THEN LET r == SlotHeap_pop_unchecked(h) IN [h |-> r.h, ret |-> Some(r.item)]
    ELSE [h |-> h, ret |-> None]

SlotHeap_remove_unchecked(h, id) ==
    LET r == SlotMap_remove_unchecked(h.indices, id)
        index == r.value
        len == Len(h.entries)
    IN  IF index = len - 1
        THEN [h |-> [entries |-> SubSeq(h.entries, 1, len - 1), indices |-> r.m],
              item |-> At(h.entries, len - 1).item]
        ELSE LET sr == swap_remove_unchecked(h.entries, index)
                 moved == At(sr.vec, index).id
                 fixed == [entries |-> sr.vec,
                           indices |-> SlotMap_set_unchecked(r.m, moved, index)]
             IN  [h |-> SlotHeap_heapify(fixed, index), item |-> sr.value.item]

SlotHeap_remove(h, id) ==
    IF SlotHeap_contains(h, id)
    THEN LET r == SlotHeap_remove_unchecked(h, id) IN [h |-> r.h, ret |-> Some(r.item)]
    ELSE [h |-> h, ret |-> None]

SlotHeap_peek(h) ==
    IF Len(h.entries) = 0 THEN None ELSE Some(At(h.entries, 0).item)

SlotHeap_peek_key(h) ==
    IF Len(h.entries) = 0 THEN None ELSE Some(At(h.entries, 0).item[1])

SlotHeap_peek_value(h) ==
    IF Len(h.entries) = 0 THEN None ELSE Some(At(h.entries, 0).item[2])

SlotHeap_get(h, id) ==
    LET index == SlotHeap_get_index(h, id) IN
    IF index = None THEN None ELSE Some(At(h.entries, index[1]).item)

SlotHeap_get_key(h, id) ==
    LET index == SlotHeap_get_index(h, id) IN
    IF index = None THEN None ELSE Some(At(h.entries, index[1]).item[1])

SlotHeap_get_value(h, id) ==
    LET index == SlotHeap_get_index(h, id) IN
    IF index = None THEN None ELSE Some(At(h.entries, index[1]).item[2])

\* a store of `item` through the reference peek_mut_impl returns
SlotHeap_peek_mut_impl_store(h, item) ==
    [h EXCEPT !.entries[1].item = item]

\* a store of `item` through the reference get_mut_impl returns
SlotHeap_get_mut_impl_store(h, id, item) ==
    LET index == SlotHeap_get_unchecked_index(h, id) IN
    [h EXCEPT !.entries[index + 1].item = item]

\* peek_value_mut() followed by a store through the returned reference
SlotHeap_peek_value_mut_store(h, value) ==
    IF Len(h.entries) # 0
    THEN [h |-> SlotHeap_peek_mut_impl_store(h, <<At(h.entries, 0).item[1], value>>),
          ret |-> Some(value)]
    ELSE [h |-> h, ret |-> None]

\* faulty get_value_mut: the reference handed out is the root's value
SlotHeap_get_value_mut_store_root(h, id, value) ==
    LET index == SlotHeap_get_index(h, id) IN
    IF index = None THEN [h |-> h, ret |-> None]
    ELSE [h |-> [h EXCEPT !.entries[1].item[2] = value],
          ret |-> Some(value)]

\* get_value_mut(id) followed by a store through the returned reference
SlotHeap_get_value_mut_store(h, id, value) ==
    LET index == SlotHeap_get_index(h, id) IN
    IF index = None THEN [h |-> h, ret |-> None]
    ELSE [h |-> [h EXCEPT !.entries[index[1] + 1].item[2] = value],
          ret |-> Some(value)]

\* no PeekMut / PeekKeyMut / RefMut / RefKeyMut is alive
NoGuard == [kind |-> "none", id |-> 0 - 1, dirty |-> FALSE]

\* a heap that is used directly, without the wrapper of sync::SlotHeap
Unwrapped == [wrapped |-> FALSE, locked |-> FALSE]

\* no sync::SlotMap has been constructed
NotBuilt == [shards |-> <<>>, rr |-> 0]

----------------------------------------------------------------------------
(* A program that owns one SlotMap and calls its methods in any order.      *)

Call(name, a, b, v, ret) == [name |-> name, a |-> a, b |-> b, v |-> v, ret |-> ret]

\* an id the caller could hold: -1 stands for "no argument"
NoArg == 0 - 1

Init ==
    /\ map = SlotMap_new
    /\ op = Call("new", NoArg, NoArg, NoArg, None)
    /\ shadow = <<>>
    /\ net = 0
    /\ freed = <<>>
    /\ heap = SlotHeap_new
    /\ guard = NoGuard
    /\ balance = [k \in PKeys |-> 0]
    /\ rwlock = Unwrapped
    /\ smap = NotBuilt
    /\ threads = <<>>

Insert(v) ==
    /\ Len(map.entries) < MaxSlots \/ map.next # Len(map.entries)
    /\ LET r == SlotMap_insert(map, v) IN
        /\ map' = r.m
        /\ op' = Call("insert", NoArg, NoArg, v, Some(r.id))
        \* an id that is already held by an earlier insert keeps that
        \* holder's expectation
        /\ shadow' = [i \in DOMAIN shadow \cup {r.id} |->
                        IF i \in DOMAIN shadow THEN shadow[i] ELSE v]
    /\ net' = net + 1
    /\ freed' = IF freed = <<>> THEN freed ELSE Tail(freed)
    /\ UNCHANGED heapVars
    /\ UNCHANGED syncVars

Remove(id) ==
    LET r == SlotMap_remove(map, id) IN
        /\ map' = r.m
        /\ op' = Call("remove", id, NoArg, NoArg, r.ret)
        /\ shadow' = IF r.ret = None THEN shadow
                     ELSE [i \in DOMAIN shadow \ {id} |-> shadow[i]]
        /\ net' = IF r.ret = None THEN net ELSE net - 1
        /\ freed' = IF r.ret = None THEN freed ELSE <<id>> \o freed
        /\ UNCHANGED heapVars
        /\ UNCHANGED syncVars

Get(id) ==
    /\ op' = Call("get", id, NoArg, NoArg, SlotMap_get(map, id))
    /\ UNCHANGED <<map, shadow, net, freed, heap, guard, balance>>
    /\ UNCHANGED syncVars

Contains(id) ==
    /\ op' = Call("contains", id, NoArg, NoArg, Some(SlotMap_contains(map, id)))
    /\ UNCHANGED <<map, shadow, net, freed, heap, guard, balance>>
    /\ UNCHANGED syncVars

GetMut(id, v) ==
    LET r == SlotMap_get_mut_store(map, id, v) IN
        /\ map' = r.m
        /\ op' = Call("get_mut", id, NoArg, v, r.ret)
        /\ shadow' = IF r.ret = None THEN shadow ELSE [shadow EXCEPT ![id] = v]
        /\ UNCHANGED <<net, freed, heap, guard, balance>>
        /\ UNCHANGED syncVars

Swap(id0, id1) ==
    LET r == SlotMap_swap(map, id0, id1) IN
        /\ map' = r.m
        /\ op' = Call("swap", id0, id1, NoArg, r.ret)
        /\ shadow' = IF r.ret = None THEN shadow
                     ELSE [shadow EXCEPT ![id0] = shadow[id1], ![id1] = shadow[id0]]
        /\ UNCHANGED <<net, freed, heap, guard, balance>>
        /\ UNCHANGED syncVars

Clear ==
    /\ map' = SlotMap_clear(map)
    /\ op' = Call("clear", NoArg, NoArg, NoArg, None)
    /\ shadow' = <<>>
    /\ net' = 0
    /\ freed' = <<>>
    /\ UNCHANGED heapVars
    /\ UNCHANGED syncVars

Next ==
    \/ \E v \in Values : Insert(v)
    \/ \E id \in Ids : Remove(id)
    \/ \E id \in Ids : Get(id)
    \/ \E id \in Ids : Contains(id)
    \/ \E id \in Ids, v \in Values : GetMut(id, v)
    \/ \E id0 \in Ids, id1 \in Ids : Swap(id0, id1)
    \/ Clear

Spec == Init /\ [][Next]_vars

----------------------------------------------------------------------------
(* unsync::SlotMap: the iterators ids(), iter(), values() and drain(). An   *)
(* iterator is the enumerated slice iterator `inner`, kept as the positions *)
(* front..back-1 it has not visited, and the remaining length `len`. The    *)
(* borrow keeps the map from every other call until the iterator is         *)
(* dropped. `yielded` is history: the positions yielded and from which end. *)

IterKinds == {"ids", "iter", "values"}

\* ids(), iter(), values()
SlotMap_iter_new(m, kind) ==
    [kind |-> kind, front |-> 0, back |-> Len(m.entries), len |-> m.len,
     items |-> m.entries, yielded |-> <<>>]

\* drain(): vec.drain(..) takes every entry out of the Vec at once
SlotMap_drain_keep_next(m) ==
    [m  |-> [entries |-> <<>>, len |-> 0, next |-> m.next],
     it |-> [kind |-> "drain", front |-> 0, back |-> Len(m.entries), len |-> m.len,
             items |-> m.entries, yielded |-> <<>>]]

SlotMap_drain(m) ==
    [m  |-> [entries |-> <<>>, len |-> 0, next |-> 0],
     it |-> [kind |-> "drain", front |-> 0, back |-> Len(m.entries), len |-> m.len,
             items |-> m.entries, yielded |-> <<>>]]

\* the item an iterator of the kind makes of the live entry at position p
Item(kind, entries, p) ==
    CASE kind = "ids" -> p
      [] kind = "values" -> At(entries, p).v
      [] OTHER -> <<p, At(entries, p).v>>

\* faulty next(): the entry at the front is yielded, live or free
Iter_next_no_skip(it) ==
    IF it.front >= it.back
    THEN [it |-> it, ret |-> None]
    ELSE [it  |-> [it EXCEPT !.front = it.front + 1, !.len = @ - 1,
                             !.yielded = Append(@, <<it.front, "front">>)],
          ret |-> Some(Item(it.kind, it.items, it.front))]

\* next(): find_map over inner, then len -= 1
Iter_next(it) ==
    LET live == {p \in it.front..(it.back - 1) : At(it.items, p).ok} IN
    IF live = {}
    THEN [it |-> [it EXCEPT !.front = it.back], ret |-> None]
    ELSE LET p == CHOOSE q \in live : \A r \in live : q <= r IN
         [it  |-> [it EXCEPT !.front = p + 1, !.len = @ - 1,
                             !.yielded = Append(@, <<p, "front">>)],
          ret |-> Some(Item(it.kind, it.items, p))]

\* next_back(): find_map over inner reversed, then len -= 1
Iter_next_back(it) ==
    LET live == {p \in it.front..(it.back - 1) : At(it.items, p).ok} IN
    IF live = {}
    THEN [it |-> [it EXCEPT !.back = it.front], ret |-> None]
    ELSE LET p == CHOOSE q \in live : \A r \in live : q >= r IN
         [it  |-> [it EXCEPT !.back = p, !.len = @ - 1,
                             !.yielded = Append(@, <<p, "back">>)],
          ret |-> Some(Item(it.kind, it.items, p))]

Iterating == guard.kind \in IterKinds \cup {"drain"}

IterNew(kind) ==
    /\ guard = NoGuard
    /\ guard' = SlotMap_iter_new(map, kind)
    /\ op' = Call(kind, NoArg, NoArg, NoArg, None)
    /\ UNCHANGED <<map, shadow, net, freed, heap, balance>>
    /\ UNCHANGED syncVars

Drain ==
    /\ guard = NoGuard
    /\ map' = SlotMap_drain(map).m
    /\ guard' = SlotMap_drain(map).it
    /\ op' = Call("drain", NoArg, NoArg, NoArg, None)
    /\ net' = 0
    /\ freed' = <<>>
    /\ UNCHANGED <<shadow, heap, balance>>
    /\ UNCHANGED syncVars

IterNext ==
    /\ Iterating
    /\ guard' = Iter_next(guard).it
    /\ op' = Call("next", NoArg, NoArg, NoArg, Iter_next(guard).ret)
    /\ UNCHANGED <<map, shadow, net, freed, heap, balance>>
    /\ UNCHANGED syncVars

IterNextBack ==
    /\ Iterating
    /\ guard' = Iter_next_back(guard).it
    /\ op' = Call("next_back", NoArg, NoArg, NoArg, Iter_next_back(guard).ret)
    /\ UNCHANGED <<map, shadow, net, freed, heap, balance>>
    /\ UNCHANGED syncVars

\* the iterator goes out of scope; a Drain drops the values it still holds,
\* and the call records how many. `shadow` keeps what was live when drain()
\* was called until the Drain is gone.
IterDrop ==
    /\ Iterating
    /\ guard' = NoGuard
    /\ op' = IF guard.kind = "drain"
             THEN Call("drop_drain", NoArg, NoArg, NoArg,
                       Some(Cardinality({p \in guard.front..(guard.back - 1) :
                                            At(guard.items, p).ok})))
             ELSE Call("drop_iter", NoArg, NoArg, NoArg, None)
    /\ shadow' = IF guard.kind = "drain" THEN <<>> ELSE shadow
    /\ UNCHANGED <<map, net, freed, heap, balance>>
    /\ UNCHANGED syncVars

NextIter ==
    \/ \E v \in Values : guard = NoGuard /\ Insert(v)
    \/ \E id \in Ids : guard = NoGuard /\ Remove(id)
    \/ \E kind \in IterKinds : IterNew(kind)
    \/ Drain
    \/ IterNext
    \/ IterNextBack
    \/ IterDrop

SpecIter == Init /\ [][NextIter]_vars

\* the map with insert, remove, clear and the iterators
NextDense ==
    \/ NextIter
    \/ guard = NoGuard /\ Clear

SpecDense == Init /\ [][NextDense]_vars

----------------------------------------------------------------------------
(* A program that owns one SlotHeap and calls its methods in any order. A   *)
(* guard borrows the heap exclusively: while one is alive the program can   *)
(* only write through it, drop it or call its remove.                       *)

InitHeap ==
    /\ map = SlotMap_new
    /\ op = Call("new", NoArg, NoArg, NoArg, None)
    /\ shadow = <<>>
    /\ net = 0
    /\ freed = <<>>
    /\ heap = SlotHeap_new
    /\ guard = NoGuard
    /\ balance = [k \in PKeys |-> 0]
    /\ rwlock = Unwrapped
    /\ smap = NotBuilt
    /\ threads = <<>>

\* history: the items expected under the ids that are still live in h
Surviving(h) ==
    [i \in {j \in DOMAIN shadow : SlotHeap_contains(h, j)} |-> shadow[i]]

HInsert(k, v) ==
    /\ guard = NoGuard
    /\ SlotHeap_len(heap) < MaxHeap
    /\ LET r == SlotHeap_insert(heap, k, v) IN
        /\ heap' = r.h
        /\ op' = Call("insert", NoArg, NoArg, <<k, v>>, Some(r.id))
        /\ shadow' = [i \in DOMAIN shadow \cup {r.id} |->
                        IF i \in DOMAIN shadow THEN shadow[i] ELSE <<k, v>>]
    /\ balance' = [balance EXCEPT ![k] = @ + 1]
    /\ UNCHANGED <<guard, mapVars>>
    /\ UNCHANGED syncVars

HPop ==
    /\ guard = NoGuard
    /\ LET r == SlotHeap_pop(heap) IN
        /\ heap' = r.h
        /\ op' = Call("pop", NoArg, NoArg, NoArg, r.ret)
        /\ shadow' = Surviving(r.h)
        /\ balance' = IF r.ret = None THEN balance
                      ELSE [balance EXCEPT ![r.ret[1][1]] = @ - 1]
    /\ UNCHANGED <<guard, mapVars>>
    /\ UNCHANGED syncVars

HRemove(id) ==
    /\ guard = NoGuard
    /\ LET r == SlotHeap_remove(heap, id) IN
        /\ heap' = r.h
        /\ op' = Call("remove", id, NoArg, NoArg, r.ret)
        /\ shadow' = IF r.ret = None THEN shadow
                     ELSE [i \in DOMAIN shadow \ {id} |-> shadow[i]]
        /\ balance' = IF r.ret = None THEN balance
                      ELSE [balance EXCEPT ![r.ret[1][1]] = @ - 1]
    /\ UNCHANGED <<guard, mapVars>>
    /\ UNCHANGED syncVars

HClear ==
    /\ guard = NoGuard
    /\ heap' = SlotHeap_clear(heap)
    /\ op' = Call("clear", NoArg, NoArg, NoArg, None)
    /\ shadow' = <<>>
    /\ balance' = [k \in PKeys |-> 0]
    /\ UNCHANGED <<guard, mapVars>>
    /\ UNCHANGED syncVars

HPeekValueMut(v) ==
    /\ guard = NoGuard
    /\ LET r == SlotHeap_peek_value_mut_store(heap, v) IN
        /\ heap' = r.h
        /\ op' = Call("peek_value_mut", NoArg, NoArg, v, r.ret)
        /\ shadow' = IF r.ret = None THEN shadow
                     ELSE [shadow EXCEPT ![At(heap.entries, 0).id][2] = v]
    /\ UNCHANGED <<guard, balance, mapVars>>
    /\ UNCHANGED syncVars

HGetValueMut(id, v) ==
    /\ guard = NoGuard
    /\ LET r == SlotHeap_get_value_mut_store(heap, id, v) IN
        /\ heap' = r.h
        /\ op' = Call("get_value_mut", id, NoArg, v, r.ret)
        /\ shadow' = IF r.ret = None THEN shadow ELSE [shadow EXCEPT ![id][2] = v]
    /\ UNCHANGED <<guard, balance, mapVars>>
    /\ UNCHANGED syncVars

\* peek_mut / peek_key_mut: None on an empty heap, else a clean guard on position 0
HPeekGuard(kind) ==
    /\ guard = NoGuard
    /\ guard' = IF SlotHeap_is_empty(heap) THEN NoGuard
                ELSE [kind |-> kind, id |-> NoArg, dirty |-> FALSE]
    /\ op' = Call(kind, NoArg, NoArg, NoArg,
                  IF SlotHeap_is_empty(heap) THEN None ELSE Some(<<>>))
    /\ UNCHANGED <<heap, shadow, balance, mapVars>>
    /\ UNCHANGED syncVars

\* get_mut / get_key_mut: None when id is not live, else a clean guard on id
HRefGuard(kind, id) ==
    /\ guard = NoGuard
    /\ guard' = IF SlotHeap_contains(heap, id)
                THEN [kind |-> kind, id |-> id, dirty |-> FALSE]
                ELSE NoGuard
    /\ op' = Call(kind, id, NoArg, NoArg,
                  IF SlotHeap_contains(heap, id) THEN Some(<<>>) ELSE None)
    /\ UNCHANGED <<heap, shadow, balance, mapVars>>
    /\ UNCHANGED syncVars

IsPeek(g) == g.kind \in {"PeekMut", "PeekKeyMut"}
IsRef(g) == g.kind \in {"RefMut", "RefKeyMut"}
IsKeyOnly(g) == g.kind \in {"PeekKeyMut", "RefKeyMut"}

\* the id of the element the guard lends
GuardedId(h, g) == IF IsPeek(g) THEN At(h.entries, 0).id ELSE g.id

\* deref_mut followed by a store: the guard becomes dirty and the key (for
\* the pair guards also the value) of the guarded element is overwritten
GuardWrite(k, v) ==
    /\ guard # NoGuard
    /\ LET gid == GuardedId(heap, guard)
           old == SlotHeap_get(heap, gid)[1]
           item == IF IsKeyOnly(guard) THEN <<k, old[2]>> ELSE <<k, v>>
       IN
        /\ IsKeyOnly(guard) => v = old[2]
        /\ heap' = IF IsPeek(guard) THEN SlotHeap_peek_mut_impl_store(heap, item)
                   ELSE SlotHeap_get_mut_impl_store(heap, guard.id, item)
        /\ shadow' = [shadow EXCEPT ![gid] = item]
        /\ balance' = [[balance EXCEPT ![old[1]] = @ - 1] EXCEPT ![k] = @ + 1]
        /\ op' = Call("deref_mut", NoArg, NoArg, item, None)
    /\ guard' = [guard EXCEPT !.dirty = TRUE]
    /\ UNCHANGED mapVars
    /\ UNCHANGED syncVars

\* faulty drop: the heap is re-heapified whether or not the guard is dirty
GuardDrop_always_heapify ==
    /\ guard # NoGuard
    /\ heap' = IF IsPeek(guard) THEN SlotHeap_heapify_down(heap, 0)
               ELSE SlotHeap_heapify(heap, SlotHeap_get_unchecked_index(heap, guard.id))
    /\ guard' = NoGuard
    /\ op' = Call("drop", guard.id, GuardedId(heap, guard), guard.dirty, None)
    /\ UNCHANGED <<shadow, balance, mapVars>>
    /\ UNCHANGED syncVars

\* Drop for PeekMut / PeekKeyMut / RefMut / RefKeyMut. The call records the
\* id of the lent element.
GuardDrop ==
    /\ guard # NoGuard
    /\ heap' = IF ~guard.dirty THEN heap
               ELSE IF IsPeek(guard) THEN SlotHeap_heapify_down(heap, 0)
               ELSE SlotHeap_heapify(heap, SlotHeap_get_unchecked_index(heap, guard.id))
    /\ guard' = NoGuard
    /\ op' = Call("drop", guard.id, GuardedId(heap, guard), guard.dirty, None)
    /\ UNCHANGED <<shadow, balance, mapVars>>
    /\ UNCHANGED syncVars

\* PeekMut::remove / PeekKeyMut::remove / RefMut::remove / RefKeyMut::remove
GuardRemove ==
    /\ guard # NoGuard
    /\ LET r == IF IsPeek(guard) THEN SlotHeap_pop_unchecked(heap)
                ELSE SlotHeap_remove_unchecked(heap, guard.id)
       IN
        /\ heap' = r.h
        /\ op' = Call("guard_remove", guard.id, NoArg, guard.dirty,
                      Some(IF IsKeyOnly(guard) THEN r.item[1] ELSE r.item))
        /\ shadow' = Surviving(r.h)
        /\ balance' = [balance EXCEPT ![r.item[1]] = @ - 1]
    /\ guard' = NoGuard
    /\ UNCHANGED mapVars
    /\ UNCHANGED syncVars

\* insert, pop and remove only, keys totally ordered
NextHeapOps ==
    \/ \E k \in Keys, v \in HeapValues : HInsert(k, v)
    \/ HPop
    \/ \E id \in HeapIds : HRemove(id)

SpecHeapOps == InitHeap /\ [][NextHeapOps]_vars

\* every operation, keys totally ordered
NextHeapTotal ==
    \/ \E k \in Keys, v \in HeapValues : SlotHeap_len(heap) < MaxGuarded /\ HInsert(k, v)
    \/ HPop
    \/ \E id \in GuardedIds : HRemove(id)
    \/ HClear
    \/ \E v \in HeapValues : HPeekValueMut(v)
    \/ \E id \in GuardedIds, v \in HeapValues : HGetValueMut(id, v)
    \/ \E kind \in {"PeekMut", "PeekKeyMut"} : HPeekGuard(kind)
    \/ \E kind \in {"RefMut", "RefKeyMut"}, id \in GuardedIds : HRefGuard(kind, id)
    \/ \E k \in Keys, v \in HeapValues : GuardWrite(k, v)
    \/ GuardDrop
    \/ GuardRemove

SpecHeapTotal == InitHeap /\ [][NextHeapTotal]_vars

\* every operation, keys of a type with incomparable values
NextHeap ==
    \/ \E k \in PKeys, v \in HeapValues : SlotHeap_len(heap) < MaxGuarded /\ HInsert(k, v)
    \/ HPop
    \/ \E id \in GuardedIds : HRemove(id)
    \/ HClear
    \/ \E v \in HeapValues : HPeekValueMut(v)
    \/ \E id \in GuardedIds, v \in HeapValues : HGetValueMut(id, v)
    \/ \E kind \in {"PeekMut", "PeekKeyMut"} : HPeekGuard(kind)
    \/ \E kind \in {"RefMut", "RefKeyMut"}, id \in GuardedIds : HRefGuard(kind, id)
    \/ \E k \in PKeys, v \in HeapValues : GuardWrite(k, v)
    \/ GuardDrop
    \/ GuardRemove

SpecHeap == InitHeap /\ [][NextHeap]_vars

\* every operation, keys of a type with incomparable values, two values
NextHeapValues ==
    \/ \E k \in PKeys, v \in ItemValues : SlotHeap_len(heap) < MaxValued /\ HInsert(k, v)
    \/ HPop
    \/ \E id \in ValuedIds : HRemove(id)
    \/ HClear
    \/ \E v \in ItemValues : HPeekValueMut(v)
    \/ \E id \in ValuedIds, v \in ItemValues : HGetValueMut(id, v)
    \/ \E kind \in {"PeekMut", "PeekKeyMut"} : HPeekGuard(kind)
    \/ \E kind \in {"RefMut", "RefKeyMut"}, id \in ValuedIds : HRefGuard(kind, id)
    \/ \E k \in PKeys, v \in ItemValues : GuardWrite(k, v)
    \/ GuardDrop
    \/ GuardRemove

SpecHeapValues == InitHeap /\ [][NextHeapValues]_vars

\* the entries a heap of up to MaxGuarded elements can hold
Entries == {Entry(k, v, id) : k \in PKeys, v \in HeapValues, id \in 0..(MaxGuarded - 1)}

\* Ord::cmp on entries a, b, c, pair by pair
EntryCmp(a, b, c) ==
    /\ op' = Call("cmp", a, b, c,
                  [ab |-> Entry_cmp(a, b), ba |-> Entry_cmp(b, a),
                   bc |-> Entry_cmp(b, c), ac |-> Entry_cmp(a, c)])
    /\ UNCHANGED <<shadow, heapVars, mapVars, syncVars>>

NextEntryCmp == \E a \in Entries, b \in Entries, c \in Entries : EntryCmp(a, b, c)

SpecEntryCmp == InitHeap /\ [][NextEntryCmp]_vars

\* history: a stamp larger than the stamp of every element still in the heap
NextStamp ==
    IF DOMAIN shadow = {} THEN 1
    ELSE 1 + (CHOOSE m \in {shadow[i][2] : i \in DOMAIN shadow} :
                \A j \in DOMAIN shadow : shadow[j][2] <= m)

\* insert, pop and remove, keys totally ordered; the value stored with a key
\* is a stamp that grows with every insert, so that of two elements in the
\* heap the one with the smaller stamp was inserted first
NextHeapTies ==
    \/ \E k \in Keys, v \in Stamps :
            (SlotHeap_len(heap) < MaxTied /\ v = NextStamp) /\ HInsert(k, v)
    \/ HPop
    \/ \E id \in TiedIds : HRemove(id)

SpecHeapTies == InitHeap /\ [][NextHeapTies]_vars

----------------------------------------------------------------------------
(* sync::SlotHeap: an RwLock around an unsync::SlotHeap. Every method takes *)
(* the lock, calls the inner method of the same name and releases the lock; *)
(* a mutation guard keeps the write lock from its creation to its drop.     *)

\* RwLock::new(unsync::SlotHeap::new())
RwLock_new == [wrapped |-> TRUE, locked |-> FALSE]

InitSyncHeap ==
    /\ map = SlotMap_new
    /\ op = Call("new", NoArg, NoArg, NoArg, None)
    /\ shadow = <<>>
    /\ net = 0
    /\ freed = <<>>
    /\ heap = SlotHeap_new
    /\ guard = NoGuard
    /\ balance = [k \in PKeys |-> 0]
    /\ rwlock = RwLock_new
    /\ smap = NotBuilt
    /\ threads = <<>>

\* a store of `item` through the reference by_index_mut(index) returns
SlotHeap_by_index_mut_store(h, index, item) ==
    [h EXCEPT !.entries[index + 1].item = item]

SyncPeekKinds == {"sync::PeekMut", "sync::PeekKeyMut"}
SyncRefKinds == {"sync::RefMut", "sync::RefKeyMut"}
SyncKeyOnlyKinds == {"sync::PeekKeyMut", "sync::RefKeyMut"}

\* sync peek_mut / peek_key_mut: takes the write lock; on an empty heap the
\* lock is released and None returned, else the guard keeps the lock and
\* lends position 0
SyncPeekMut(kind) ==
    /\ rwlock.wrapped
    /\ ~rwlock.locked
    /\ guard = NoGuard
    /\ IF SlotHeap_is_empty(heap)
       THEN /\ guard' = NoGuard
            /\ rwlock' = rwlock
            /\ op' = Call(kind, NoArg, NoArg, NoArg, None)
       ELSE /\ guard' = [kind |-> kind, index |-> 0, dirty |-> FALSE]
            /\ rwlock' = [rwlock EXCEPT !.locked = TRUE]
            /\ op' = Call(kind, NoArg, NoArg, NoArg, Some(<<>>))
    /\ UNCHANGED <<heap, shadow, balance, mapVars, smap, threads>>

\* sync get_mut / get_key_mut: takes the write lock and looks the position
\* of id up; None releases the lock, else the guard keeps the lock and the
\* position
SyncGetMut(kind, id) ==
    /\ rwlock.wrapped
    /\ ~rwlock.locked
    /\ guard = NoGuard
    /\ LET index == SlotHeap_get_index(heap, id) IN
        IF index = None
        THEN /\ guard' = NoGuard
             /\ rwlock' = rwlock
             /\ op' = Call(kind, id, NoArg, NoArg, None)
        ELSE /\ guard' = [kind |-> kind, index |-> index[1], dirty |-> FALSE]
             /\ rwlock' = [rwlock EXCEPT !.locked = TRUE]
             /\ op' = Call(kind, id, NoArg, NoArg, Some(<<>>))
    /\ UNCHANGED <<heap, shadow, balance, mapVars, smap, threads>>

\* deref_mut of a sync guard followed by a store
SyncDerefMut(k, v) ==
    /\ rwlock.locked
    /\ guard.kind \in SyncPeekKinds \cup SyncRefKinds
    /\ LET old == At(heap.entries, guard.index)
           item == IF guard.kind \in SyncKeyOnlyKinds THEN <<k, old.item[2]>> ELSE <<k, v>>
       IN
        /\ guard.kind \in SyncKeyOnlyKinds => v = old.item[2]
        /\ heap' = SlotHeap_by_index_mut_store(heap, guard.index, item)
        /\ shadow' = [shadow EXCEPT ![old.id] = item]
        /\ balance' = [[balance EXCEPT ![old.item[1]] = @ - 1] EXCEPT ![k] = @ + 1]
        /\ op' = Call("deref_mut", NoArg, NoArg, item, None)
    /\ guard' = [guard EXCEPT !.dirty = TRUE]
    /\ UNCHANGED <<rwlock, mapVars, smap, threads>>

\* Drop for the sync guards: heapify from the kept position when dirty, then
\* the write lock is released. The call records the id of the lent element.
SyncDrop ==
    /\ rwlock.locked
    /\ guard.kind \in SyncPeekKinds \cup SyncRefKinds
    /\ heap' = IF guard.dirty THEN SlotHeap_heapify(heap, guard.index) ELSE heap
    /\ guard' = NoGuard
    /\ rwlock' = [rwlock EXCEPT !.locked = FALSE]
    /\ op' = Call("drop", guard.index, At(heap.entries, guard.index).id, guard.dirty, None)
    /\ UNCHANGED <<shadow, balance, mapVars, smap, threads>>

\* a heap used directly or through the wrapper: insert, pop, remove, clear
\* and the four guards of the layer in use; keys totally ordered
InitHeapGuards == InitHeap \/ InitSyncHeap

NextHeapGuards ==
    \/ \E k \in Keys, v \in HeapValues :
            (SlotHeap_len(heap) < MaxGuarded /\ ~rwlock.locked) /\ HInsert(k, v)
    \/ ~rwlock.locked /\ HPop
    \/ \E id \in GuardedIds : ~rwlock.locked /\ HRemove(id)
    \/ ~rwlock.locked /\ HClear
    \/ \E kind \in {"PeekMut", "PeekKeyMut"} : ~rwlock.wrapped /\ HPeekGuard(kind)
    \/ \E kind \in {"RefMut", "RefKeyMut"}, id \in GuardedIds :
            ~rwlock.wrapped /\ HRefGuard(kind, id)
    \/ \E k \in Keys, v \in HeapValues : ~rwlock.wrapped /\ GuardWrite(k, v)
    \/ ~rwlock.wrapped /\ GuardDrop
    \/ ~rwlock.wrapped /\ GuardRemove
    \/ \E kind \in SyncPeekKinds : SyncPeekMut(kind)
    \/ \E kind \in SyncRefKinds, id \in GuardedIds : SyncGetMut(kind, id)
    \/ \E k \in Keys, v \in HeapValues : SyncDerefMut(k, v)
    \/ SyncDrop

SpecHeapGuards == InitHeapGuards /\ [][NextHeapGuards]_vars

----------------------------------------------------------------------------
(* sync::SlotMap: shards, each an RwLock around an unsync::SlotMap plus an  *)
(* atomic live count, and a round-robin counter. A call of a thread is a    *)
(* sequence of steps; a step is one atomic access or one lock acquisition   *)
(* together with the accesses to the locked shard that follow it. An atomic *)
(* access with Relaxed ordering reads the latest value stored.              *)

Threads == 1..NumThreads

RECURSIVE count_ones(_)
count_ones(n) == IF n = 0 THEN 0 ELSE (n % 2) + count_ones(n \div 2)

\* usize::is_power_of_two
is_power_of_two(n) == count_ones(n) = 1

\* usize::trailing_zeros of a non-zero value
RECURSIVE trailing_zeros(_)
trailing_zeros(n) == IF n % 2 = 1 THEN 0 ELSE 1 + trailing_zeros(n \div 2)

\* x & y
RECURSIVE BitAnd(_, _)
BitAnd(x, y) ==
    IF x = 0 \/ y = 0 THEN 0
    ELSE (x % 2) * (y % 2) + 2 * BitAnd(x \div 2, y \div 2)

\* x | y
RECURSIVE BitOr(_, _)
BitOr(x, y) ==
    IF x = 0 THEN y
    ELSE IF y = 0 THEN x
    ELSE (IF x % 2 = 1 \/ y % 2 = 1 THEN 1 ELSE 0) + 2 * BitOr(x \div 2, y \div 2)

\* x << n and x >> n on usize: the bits shifted out of the word are lost
RECURSIVE Shl(_, _)
Shl(x, n) == IF n = 0 THEN x ELSE Shl((2 * x) % (2^WordBits), n - 1)
RECURSIVE Shr(_, _)
Shr(x, n) == IF n = 0 THEN x ELSE Shr(x \div 2, n - 1)

\* Shard { inner: RwLock::new(unsync::SlotMap::new()), len: AtomicUsize::new(0) };
\* the lock is free when writer = 0 and readers = {}
Shard_new == [inner |-> SlotMap_new, len |-> 0, writer |-> 0, readers |-> {}]

SyncSlotMap_with_num_shards_unchecked(num_shards) ==
    [shards |-> [i \in 1..num_shards |-> Shard_new], rr |-> 0]

\* faulty check: any power of two is accepted
SyncSlotMap_with_num_shards_any_power(num_shards) ==
    IF is_power_of_two(num_shards)
    THEN Some(SyncSlotMap_with_num_shards_unchecked(num_shards))
    ELSE None

SyncSlotMap_with_num_shards(num_shards) ==
    IF is_power_of_two(num_shards) /\ num_shards >= MinShards
    THEN Some(SyncSlotMap_with_num_shards_unchecked(num_shards))
    ELSE None

SyncSlotMap_num_shards(m) == Len(m.shards)

SyncSlotMap_num_shift(m) == trailing_zeros(SyncSlotMap_num_shards(m))

SyncSlotMap_rr_mask(m) == SyncSlotMap_num_shards(m) - 1

SyncSlotMap_rr_interval(m) == Shr(SyncSlotMap_num_shards(m), 2)

\* faulty merge: the shard index is left out of the id
SyncSlotMap_merge_no_shard(m, shard_index, id) ==
    Shl(id, SyncSlotMap_num_shift(m))

SyncSlotMap_merge(m, shard_index, id) ==
    BitOr(Shl(id, SyncSlotMap_num_shift(m)), shard_index)

\* faulty split: the inner id keeps the shard bits
SyncSlotMap_split_no_shift(m, id) ==
    <<BitAnd(id, SyncSlotMap_rr_mask(m)), id>>

\* <<shard index, id within the shard>>
SyncSlotMap_split(m, id) ==
    <<BitAnd(id, SyncSlotMap_rr_mask(m)), Shr(id, SyncSlotMap_num_shift(m))>>

\* len(): the sum of the shards' counts, read while no call is in progress
RECURSIVE SumLen(_, _)
SumLen(shards, n) == IF n = 0 THEN 0 ELSE shards[n].len + SumLen(shards, n - 1)

SyncSlotMap_len(m) == SumLen(m.shards, Len(m.shards))

\* is_empty(), read while no call is in progress
SyncSlotMap_is_empty(m) == \A i \in DOMAIN m.shards : m.shards[i].len = 0

ShardAt(m, index) == m.shards[index + 1]

\* RwLock::write() and RwLock::read() return at once
CanWrite(sh) == sh.writer = 0 /\ sh.readers = {}
CanRead(sh) == sh.writer = 0

\* a thread that is not inside a call
ThreadIdle ==
    [pc |-> "idle", name |-> "none", a |-> NoArg, b |-> NoArg, v |-> NoArg,
     reverse |-> FALSE, rr |-> 0, i |-> 0, min |-> None, shard |-> NoArg,
     id |-> NoArg, ret |-> None, found |-> FALSE, done |-> 0, ids |-> <<>>,
     removed |-> 0, reads |-> <<>>]

InitSyncMap ==
    /\ map = SlotMap_new
    /\ op = Call("new", NoArg, NoArg, NoArg, None)
    /\ shadow = <<>>
    /\ net = 0
    /\ freed = <<>>
    /\ heap = SlotHeap_new
    /\ guard = NoGuard
    /\ balance = [k \in PKeys |-> 0]
    /\ rwlock = Unwrapped
    /\ smap = SyncSlotMap_with_num_shards_unchecked(MinShards)
    /\ threads = [t \in Threads |-> ThreadIdle]

unsyncVars == <<map, shadow, net, freed, heap, guard, balance, rwlock, op>>

\* insert, first step: select_shard's rr.fetch_add(1)
InsertFetchAdd(t, v) ==
    /\ threads[t].pc = "idle"
    /\ smap' = [smap EXCEPT !.rr = @ + 1]
    /\ threads' = [threads EXCEPT ![t] =
            [@ EXCEPT !.pc = "select", !.name = "insert", !.a = NoArg, !.b = NoArg,
                      !.v = v, !.rr = smap.rr, !.i = 0, !.min = None, !.ret = None]]
    /\ UNCHANGED unsyncVars

\* faulty load: among equal counts the last candidate wins
SelectLoad_last_min(t) ==
    /\ threads[t].pc = "select"
    /\ LET th == threads[t]
           index == BitAnd(th.rr + th.i * SyncSlotMap_rr_interval(smap),
                           SyncSlotMap_rr_mask(smap))
           len == ShardAt(smap, index).len
           min == IF th.min = None \/ len <= th.min[1][2] THEN Some(<<index, len>>)
                  ELSE th.min
       IN  threads' = [threads EXCEPT ![t] =
                IF th.i = 3
                THEN [@ EXCEPT !.pc = IF th.name = "lazy_insert" THEN "lazy_lock"
                                       ELSE "insert_lock",
                               !.i = 4, !.min = None,
                               !.shard = min[1][1], !.reads = <<>>]
                ELSE [@ EXCEPT !.i = th.i + 1, !.min = min,
                               !.reads = Append(@, <<index, len>>)]]
    /\ UNCHANGED <<smap, unsyncVars>>

\* select_shard: the load of the i-th candidate's count; min_by_key keeps the
\* first of equally small counts. After the fourth load the shard is chosen.
SelectLoad(t) ==
    /\ threads[t].pc = "select"
    /\ LET th == threads[t]
           index == BitAnd(th.rr + th.i * SyncSlotMap_rr_interval(smap),
                           SyncSlotMap_rr_mask(smap))
           len == ShardAt(smap, index).len
           min == IF th.min = None \/ len < th.min[1][2] THEN Some(<<index, len>>)
                  ELSE th.min
       IN  threads' = [threads EXCEPT ![t] =
                IF th.i = 3
                THEN [@ EXCEPT !.pc = IF th.name = "lazy_insert" THEN "lazy_lock"
                                       ELSE "insert_lock",
                               !.i = 4, !.min = None,
                               !.shard = min[1][1], !.reads = <<>>]
                ELSE [@ EXCEPT !.i = th.i + 1, !.min = min,
                               !.reads = Append(@, <<index, len>>)]]
    /\ UNCHANGED <<smap, unsyncVars>>

\* insert: shard.inner.write() and guard.insert(value)
InsertLock(t) ==
    /\ threads[t].pc = "insert_lock"
    /\ LET th == threads[t]
           sh == ShardAt(smap, th.shard)
           r == SlotMap_insert(sh.inner, th.v)
       IN
        /\ CanWrite(sh)
        /\ smap' = [smap EXCEPT !.shards[th.shard + 1] =
                        [sh EXCEPT !.inner = r.m, !.writer = t]]
        /\ threads' = [threads EXCEPT ![t] = [@ EXCEPT !.pc = "insert_add", !.id = r.id]]
    /\ UNCHANGED unsyncVars

\* insert: shard.len.fetch_add(1)
InsertAdd(t) ==
    /\ threads[t].pc = "insert_add"
    /\ smap' = [smap EXCEPT !.shards[threads[t].shard + 1].len = @ + 1]
    /\ threads' = [threads EXCEPT ![t] = [@ EXCEPT !.pc = "insert_ret"]]
    /\ UNCHANGED unsyncVars

\* insert returns merge(shard_index, id) and the write guard is dropped; the
\* thread keeps the id it received with the value it stored
InsertRet(t) ==
    /\ threads[t].pc = "insert_ret"
    /\ LET th == threads[t]
           id == SyncSlotMap_merge(smap, th.shard, th.id)
       IN
        /\ smap' = [smap EXCEPT !.shards[th.shard + 1].writer = 0]
        /\ threads' = [threads EXCEPT ![t] =
                [@ EXCEPT !.pc = "idle", !.ret = Some(id), !.done = @ + 1,
                          !.ids = Append(@, <<id, th.v>>)]]
    /\ UNCHANGED unsyncVars

\* faulty remove: the count is decremented also when no value was removed
RemoveLock_sub_on_none(t, id) ==
    /\ threads[t].pc = "idle"
    /\ LET sp == SyncSlotMap_split(smap, id)
           sh == ShardAt(smap, sp[1])
           r == SlotMap_remove(sh.inner, sp[2])
       IN
        /\ sp[1] < SyncSlotMap_num_shards(smap)
        /\ CanWrite(sh)
        /\ smap' = [smap EXCEPT !.shards[sp[1] + 1] =
                        [sh EXCEPT !.inner = r.m, !.writer = t]]
        /\ threads' = [threads EXCEPT ![t] =
                [@ EXCEPT !.pc = "remove_sub",
                          !.name = "remove", !.a = id, !.b = NoArg, !.v = NoArg,
                          !.shard = sp[1], !.id = sp[2], !.ret = r.ret]]
    /\ UNCHANGED unsyncVars

\* faulty remove: the value is handed out and stays in the shard
RemoveLock_keep(t, id) ==
    /\ threads[t].pc = "idle"
    /\ LET sp == SyncSlotMap_split(smap, id)
           sh == ShardAt(smap, sp[1])
           r == SlotMap_remove(sh.inner, sp[2])
       IN
        /\ sp[1] < SyncSlotMap_num_shards(smap)
        /\ CanWrite(sh)
        /\ smap' = [smap EXCEPT !.shards[sp[1] + 1] =
                        [sh EXCEPT !.writer = t]]
        /\ threads' = [threads EXCEPT ![t] =
                [@ EXCEPT !.pc = IF r.ret = None THEN "unlock" ELSE "remove_sub",
                          !.name = "remove", !.a = id, !.b = NoArg, !.v = NoArg,
                          !.shard = sp[1], !.id = sp[2], !.ret = r.ret]]
    /\ UNCHANGED unsyncVars

\* remove(id): split, shard.inner.write() and guard.remove(id)
RemoveLock(t, id) ==
    /\ threads[t].pc = "idle"
    /\ LET sp == SyncSlotMap_split(smap, id)
           sh == ShardAt(smap, sp[1])
           r == SlotMap_remove(sh.inner, sp[2])
       IN
        /\ sp[1] < SyncSlotMap_num_shards(smap)
        /\ CanWrite(sh)
        /\ smap' = [smap EXCEPT !.shards[sp[1] + 1] =
                        [sh EXCEPT !.inner = r.m, !.writer = t]]
        /\ threads' = [threads EXCEPT ![t] =
                [@ EXCEPT !.pc = IF r.ret = None THEN "unlock" ELSE "remove_sub",
                          !.name = "remove", !.a = id, !.b = NoArg, !.v = NoArg,
                          !.shard = sp[1], !.id = sp[2], !.ret = r.ret]]
    /\ UNCHANGED unsyncVars

\* faulty remove: the shard's count is not decremented
RemoveSub_skip(t) ==
    /\ threads[t].pc = "remove_sub"
    /\ threads' = [threads EXCEPT ![t] = [@ EXCEPT !.pc = "unlock"]]
    /\ UNCHANGED <<smap, unsyncVars>>

\* remove: shard.len.fetch_sub(1) after a successful guard.remove
RemoveSub(t) ==
    /\ threads[t].pc = "remove_sub"
    /\ smap' = [smap EXCEPT !.shards[threads[t].shard + 1].len = @ - 1]
    /\ threads' = [threads EXCEPT ![t] = [@ EXCEPT !.pc = "unlock"]]
    /\ UNCHANGED unsyncVars

\* the call returns and its write guard is dropped; the thread counts the
\* removes that returned a value
Unlock(t) ==
    /\ threads[t].pc = "unlock"
    /\ smap' = [smap EXCEPT !.shards[threads[t].shard + 1].writer = 0]
    /\ threads' = [threads EXCEPT ![t] =
            [@ EXCEPT !.pc = "idle", !.done = @ + 1,
                      !.removed = IF threads[t].name = "remove" /\ threads[t].ret # None
                                  THEN @ + 1 ELSE @]]
    /\ UNCHANGED unsyncVars

\* each thread inserts OpsPerThread distinct integers and then removes the
\* ids it received, in the order it received them
NextInsertRemove ==
    \/ \E t \in Threads :
            threads[t].done < OpsPerThread
                /\ InsertFetchAdd(t, (t - 1) * OpsPerThread + threads[t].done)
    \/ \E t \in Threads : SelectLoad(t)
    \/ \E t \in Threads : InsertLock(t)
    \/ \E t \in Threads : InsertAdd(t)
    \/ \E t \in Threads : InsertRet(t)
    \/ \E t \in Threads :
            (threads[t].done >= OpsPerThread /\ threads[t].done < 2 * OpsPerThread)
                /\ RemoveLock(t, threads[t].ids[threads[t].done - OpsPerThread + 1][1])
    \/ \E t \in Threads : RemoveSub(t)
    \/ \E t \in Threads : Unlock(t)

SpecInsertRemove == InitSyncMap /\ [][NextInsertRemove]_vars

----------------------------------------------------------------------------
(* sync::SlotMap: construction with a requested number of shards.           *)

ShardArgs == 0..MaxShardArg

InitShards ==
    /\ map = SlotMap_new
    /\ op = Call("new", NoArg, NoArg, NoArg, None)
    /\ shadow = <<>>
    /\ net = 0
    /\ freed = <<>>
    /\ heap = SlotHeap_new
    /\ guard = NoGuard
    /\ balance = [k \in PKeys |-> 0]
    /\ rwlock = Unwrapped
    /\ smap = NotBuilt
    /\ threads = <<>>

\* with_num_shards(num_shards); the map that is returned replaces the one
\* built before, and num_shards() of it is recorded
WithNumShards(num_shards) ==
    LET r == SyncSlotMap_with_num_shards(num_shards)
    IN  /\ smap' = IF r = None THEN NotBuilt ELSE r[1]
        /\ op' = Call("with_num_shards", num_shards, NoArg, NoArg,
                      IF r = None THEN None ELSE Some(SyncSlotMap_num_shards(r[1])))
        /\ UNCHANGED <<map, shadow, net, freed, heap, guard, balance, rwlock, threads>>

NextShards == \E num_shards \in ShardArgs : WithNumShards(num_shards)

SpecShards == InitShards /\ [][NextShards]_vars

----------------------------------------------------------------------------
(* sync::SlotMap: swap, get, get_mut, contains and clear called by threads  *)
(* on a map the spawning thread has filled.                                 *)

Xor(p, q) == p # q

\* ids the threads pass to the calls: the ids of the filled map
MaxMapId == Populated - 1
MapIds == 0..MaxMapId
\* values the threads store
MapValues == 0..MaxMapVal

\* select_shard() called while no other call is in progress: rr.fetch_add(1),
\* four candidates, the first of the least loaded
SyncSlotMap_select_shard(m) ==
    LET cand(i) == BitAnd(m.rr + i * SyncSlotMap_rr_interval(m), SyncSlotMap_rr_mask(m))
        len(i) == ShardAt(m, cand(i)).len
        best == CHOOSE i \in 0..3 :
                    /\ \A j \in 0..3 : len(i) <= len(j)
                    /\ \A j \in 0..(i - 1) : len(j) > len(i)
    IN  cand(best)

\* insert(value) called while no other call is in progress
SyncSlotMap_insert(m, value) ==
    LET shard_index == SyncSlotMap_select_shard(m)
        sh == ShardAt(m, shard_index)
        r == SlotMap_insert(sh.inner, value)
    IN  [m |-> [m EXCEPT !.rr = @ + 1,
                         !.shards[shard_index + 1] =
                             [sh EXCEPT !.inner = r.m, !.len = @ + 1]],
         id |-> SyncSlotMap_merge(m, shard_index, r.id)]

\* the map is built and the threads are not spawned yet; every swap call of
\* the run passes the same `reverse`
InitSwap ==
    /\ map = SlotMap_new
    /\ op = Call("new", NoArg, NoArg, NoArg, None)
    /\ shadow = <<>>
    /\ net = 0
    /\ freed = <<>>
    /\ heap = SlotHeap_new
    /\ guard = NoGuard
    /\ balance = [k \in PKeys |-> 0]
    /\ rwlock = Unwrapped
    /\ smap = SyncSlotMap_with_num_shards_unchecked(MinShards)
    /\ \E reverse \in BOOLEAN :
            threads = [t \in Threads |->
                          [ThreadIdle EXCEPT !.pc = "unspawned", !.reverse = reverse]]

Unspawned == \A t \in DOMAIN threads : threads[t].pc = "unspawned"

\* the spawning thread inserts the next of Populated distinct values
SetupInsert ==
    /\ Unspawned
    /\ SyncSlotMap_len(smap) < Populated
    /\ smap' = SyncSlotMap_insert(smap, SyncSlotMap_len(smap)).m
    /\ UNCHANGED <<threads, unsyncVars>>

\* the content of every live id: id -> value
Content(m) ==
    LET live(i) == {k \in 0..(Len(m.shards[i].inner.entries) - 1) :
                        At(m.shards[i].inner.entries, k).ok}
        pairs == UNION {{<<SyncSlotMap_merge(m, i - 1, k),
                           At(m.shards[i].inner.entries, k).v>> : k \in live(i)} :
                        i \in DOMAIN m.shards}
    IN  [id \in {p[1] : p \in pairs} |-> (CHOOSE p \in pairs : p[1] = id)[2]]

\* thread::spawn of every thread, once the map is filled; the content the
\* threads start from is recorded
Spawn ==
    /\ Unspawned
    /\ SyncSlotMap_len(smap) = Populated
    /\ threads' = [t \in DOMAIN threads |-> [threads[t] EXCEPT !.pc = "idle"]]
    /\ shadow' = Content(smap)
    /\ UNCHANGED <<smap, map, net, freed, heap, guard, balance, rwlock, op>>

\* swap(id0, id1, reverse) is entered: both ids are split
SwapCall(t, id0, id1, reverse) ==
    /\ threads[t].pc = "idle"
    /\ threads' = [threads EXCEPT ![t] =
            [@ EXCEPT !.pc = "swap_first", !.name = "swap", !.a = id0, !.b = id1,
                      !.v = NoArg, !.reverse = reverse, !.ret = None]]
    /\ UNCHANGED <<smap, unsyncVars>>

\* faulty order: the shard of id0 is always taken first
SwapFirstShard_id0_first(m, id0, id1, reverse) ==
    LET shard_index0 == SyncSlotMap_split(m, id0)[1]
        shard_index1 == SyncSlotMap_split(m, id1)[1]
    IN  shard_index0

\* the shard whose write lock a cross-shard swap takes first
SwapFirstShard(m, id0, id1, reverse) ==
    LET shard_index0 == SyncSlotMap_split(m, id0)[1]
        shard_index1 == SyncSlotMap_split(m, id1)[1]
    IN  IF Xor(shard_index0 < shard_index1, reverse) THEN shard_index0 ELSE shard_index1

SwapSecondShard(m, id0, id1, reverse) ==
    LET shard_index0 == SyncSlotMap_split(m, id0)[1]
        shard_index1 == SyncSlotMap_split(m, id1)[1]
    IN  IF SwapFirstShard(m, id0, id1, reverse) = shard_index0
        THEN shard_index1 ELSE shard_index0

\* swap, first write(): with both ids in one shard, guard.swap(id0, id1) under
\* that shard's lock; otherwise the lock of the first shard of the order
SwapFirst(t) ==
    /\ threads[t].pc = "swap_first"
    /\ LET th == threads[t]
           sp0 == SyncSlotMap_split(smap, th.a)
           sp1 == SyncSlotMap_split(smap, th.b)
           first == SwapFirstShard(smap, th.a, th.b, th.reverse)
       IN  IF sp0[1] = sp1[1]
           THEN LET sh == ShardAt(smap, sp0[1])
                    r == SlotMap_swap(sh.inner, sp0[2], sp1[2])
                IN  /\ CanWrite(sh)
                    /\ smap' = [smap EXCEPT !.shards[sp0[1] + 1] =
                                    [sh EXCEPT !.inner = r.m, !.writer = t]]
                    /\ threads' = [threads EXCEPT ![t] =
                            [@ EXCEPT !.pc = "unlock", !.shard = sp0[1], !.ret = r.ret]]
           ELSE /\ CanWrite(ShardAt(smap, first))
                /\ smap' = [smap EXCEPT !.shards[first + 1].writer = t]
                /\ threads' = [threads EXCEPT ![t] =
                        [@ EXCEPT !.pc = "swap_second", !.shard = first]]
    /\ UNCHANGED unsyncVars

\* faulty exchange: elem1 is copied over elem0 and not replaced
SyncSlotMap_swap_cross_copy(m, id0, id1) ==
    LET sp0 == SyncSlotMap_split(m, id0)
        sp1 == SyncSlotMap_split(m, id1)
        elem0 == SlotMap_get(ShardAt(m, sp0[1]).inner, sp0[2])
        elem1 == SlotMap_get(ShardAt(m, sp1[1]).inner, sp1[2])
    IN  IF elem0 = None \/ elem1 = None
        THEN [m |-> m, ret |-> None]
        ELSE [m |-> [m EXCEPT
                        !.shards[sp0[1] + 1].inner =
                            SlotMap_set_unchecked(@, sp0[2], elem1[1])],
              ret |-> Some(<<>>)]

\* the cross-shard exchange made under both write guards:
\* guard0.get_mut(id0)?, guard1.get_mut(id1)?, mem::swap(elem0, elem1)
SyncSlotMap_swap_cross(m, id0, id1) ==
    LET sp0 == SyncSlotMap_split(m, id0)
        sp1 == SyncSlotMap_split(m, id1)
        elem0 == SlotMap_get(ShardAt(m, sp0[1]).inner, sp0[2])
        elem1 == SlotMap_get(ShardAt(m, sp1[1]).inner, sp1[2])
    IN  IF elem0 = None \/ elem1 = None
        THEN [m |-> m, ret |-> None]
        ELSE [m |-> [m EXCEPT
                        !.shards[sp0[1] + 1].inner =
                            SlotMap_set_unchecked(@, sp0[2], elem1[1]),
                        !.shards[sp1[1] + 1].inner =
                            SlotMap_set_unchecked(@, sp1[2], elem0[1])],
              ret |-> Some(<<>>)]

\* swap, second write() and the exchange under both guards
SwapSecond(t) ==
    /\ threads[t].pc = "swap_second"
    /\ LET th == threads[t]
           second == SwapSecondShard(smap, th.a, th.b, th.reverse)
           r == SyncSlotMap_swap_cross(smap, th.a, th.b)
       IN
        /\ CanWrite(ShardAt(smap, second))
        /\ smap' = [r.m EXCEPT !.shards[second + 1].writer = t]
        /\ threads' = [threads EXCEPT ![t] =
                [@ EXCEPT !.pc = "swap_unlock", !.ret = r.ret]]
    /\ UNCHANGED unsyncVars

\* faulty return: the guard of the second shard is not dropped
SwapUnlock_keep(t) ==
    /\ threads[t].pc = "swap_unlock"
    /\ LET th == threads[t]
           shard_index0 == SyncSlotMap_split(smap, th.a)[1]
           shard_index1 == SyncSlotMap_split(smap, th.b)[1]
       IN
        /\ smap' = smap
        /\ threads' = [threads EXCEPT ![t] =
                [@ EXCEPT !.pc = "unlock", !.shard = shard_index0]]
    /\ UNCHANGED unsyncVars

\* swap returns: guard1 is dropped, then guard0
SwapUnlock(t) ==
    /\ threads[t].pc = "swap_unlock"
    /\ LET th == threads[t]
           shard_index0 == SyncSlotMap_split(smap, th.a)[1]
           shard_index1 == SyncSlotMap_split(smap, th.b)[1]
       IN
        /\ smap' = [smap EXCEPT !.shards[shard_index1 + 1].writer = 0]
        /\ threads' = [threads EXCEPT ![t] =
                [@ EXCEPT !.pc = "unlock", !.shard = shard_index0]]
    /\ UNCHANGED unsyncVars

\* faulty get: the read does not wait for the shard's writer
GetRead_no_wait(t, id) ==
    /\ threads[t].pc = "idle"
    /\ LET sp == SyncSlotMap_split(smap, id)
           sh == ShardAt(smap, sp[1])
       IN
        /\ sp[1] < SyncSlotMap_num_shards(smap)
        /\ smap' = [smap EXCEPT !.shards[sp[1] + 1].readers = @ \cup {t}]
        /\ threads' = [threads EXCEPT ![t] =
                [@ EXCEPT !.pc = "read_held", !.name = "get", !.a = id, !.b = NoArg,
                          !.v = NoArg, !.shard = sp[1], !.id = sp[2],
                          !.ret = SlotMap_get(sh.inner, sp[2])]]
    /\ UNCHANGED unsyncVars

\* get(id): split, shard.inner.read(), inner.get(id); the guard is kept by
\* the caller when the id is live and dropped by the return otherwise
GetRead(t, id) ==
    /\ threads[t].pc = "idle"
    /\ LET sp == SyncSlotMap_split(smap, id)
           sh == ShardAt(smap, sp[1])
       IN
        /\ sp[1] < SyncSlotMap_num_shards(smap)
        /\ CanRead(sh)
        /\ smap' = [smap EXCEPT !.shards[sp[1] + 1].readers = @ \cup {t}]
        /\ threads' = [threads EXCEPT ![t] =
                [@ EXCEPT !.pc = "read_held", !.name = "get", !.a = id, !.b = NoArg,
                          !.v = NoArg, !.shard = sp[1], !.id = sp[2],
                          !.ret = SlotMap_get(sh.inner, sp[2])]]
    /\ UNCHANGED unsyncVars

\* contains(id): split, shard.inner.read().contains(id)
ContainsRead(t, id) ==
    /\ threads[t].pc = "idle"
    /\ LET sp == SyncSlotMap_split(smap, id)
           sh == ShardAt(smap, sp[1])
       IN
        /\ sp[1] < SyncSlotMap_num_shards(smap)
        /\ CanRead(sh)
        /\ smap' = [smap EXCEPT !.shards[sp[1] + 1].readers = @ \cup {t}]
        /\ threads' = [threads EXCEPT ![t] =
                [@ EXCEPT !.pc = "read_held", !.name = "contains", !.a = id,
                          !.b = NoArg, !.v = NoArg, !.shard = sp[1], !.id = sp[2],
                          !.ret = None, !.found = SlotMap_contains(sh.inner, sp[2])]]
    /\ UNCHANGED unsyncVars

\* the read guard is dropped
ReadRelease(t) ==
    /\ threads[t].pc = "read_held"
    /\ smap' = [smap EXCEPT !.shards[threads[t].shard + 1].readers = @ \ {t}]
    /\ threads' = [threads EXCEPT ![t] = [@ EXCEPT !.pc = "idle", !.done = @ + 1]]
    /\ UNCHANGED unsyncVars

\* get_mut(id): split, shard.inner.write(), inner.get_mut(id); the caller
\* stores `v` through the guard it receives
GetMutLock(t, id, v) ==
    /\ threads[t].pc = "idle"
    /\ LET sp == SyncSlotMap_split(smap, id)
           sh == ShardAt(smap, sp[1])
           r == SlotMap_get_mut_store(sh.inner, sp[2], v)
       IN
        /\ sp[1] < SyncSlotMap_num_shards(smap)
        /\ CanWrite(sh)
        /\ smap' = [smap EXCEPT !.shards[sp[1] + 1] =
                        [sh EXCEPT !.inner = r.m, !.writer = t]]
        /\ threads' = [threads EXCEPT ![t] =
                [@ EXCEPT !.pc = "unlock", !.name = "get_mut", !.a = id, !.b = NoArg,
                          !.v = v, !.shard = sp[1], !.id = sp[2], !.ret = r.ret]]
    /\ UNCHANGED unsyncVars

\* clear(): the next shard's write() and inner.clear()
ClearLock(t) ==
    /\ \/ threads[t].pc = "idle"
       \/ threads[t].pc = "clear_next"
    /\ LET index == IF threads[t].pc = "idle" THEN 0 ELSE threads[t].i
           sh == ShardAt(smap, index)
       IN
        /\ CanWrite(sh)
        /\ smap' = [smap EXCEPT !.shards[index + 1] =
                        [sh EXCEPT !.inner = SlotMap_clear(@), !.writer = t]]
        /\ threads' = [threads EXCEPT ![t] =
                [@ EXCEPT !.pc = "clear_store", !.name = "clear", !.a = NoArg,
                          !.b = NoArg, !.v = NoArg, !.i = index, !.shard = index,
                          !.ret = None]]
    /\ UNCHANGED unsyncVars

\* faulty clear: the count of the cleared shard is not reset
ClearStore_skip(t) ==
    /\ threads[t].pc = "clear_store"
    /\ threads' = [threads EXCEPT ![t] = [@ EXCEPT !.pc = "clear_unlock"]]
    /\ UNCHANGED <<smap, unsyncVars>>

\* clear(): shard.len.store(0)
ClearStore(t) ==
    /\ threads[t].pc = "clear_store"
    /\ smap' = [smap EXCEPT !.shards[threads[t].i + 1].len = 0]
    /\ threads' = [threads EXCEPT ![t] = [@ EXCEPT !.pc = "clear_unlock"]]
    /\ UNCHANGED unsyncVars

\* clear(): the shard's guard is dropped at the end of the loop body; after
\* the last shard the call returns
ClearUnlock(t) ==
    /\ threads[t].pc = "clear_unlock"
    /\ LET index == threads[t].i
           last == index + 1 = SyncSlotMap_num_shards(smap)
       IN
        /\ smap' = [smap EXCEPT !.shards[index + 1].writer = 0]
        /\ threads' = [threads EXCEPT ![t] =
                [@ EXCEPT !.pc = IF last THEN "idle" ELSE "clear_next",
                          !.i = index + 1,
                          !.done = IF last THEN @ + 1 ELSE @]]
    /\ UNCHANGED unsyncVars

\* a thread may start another call
MayCall(t) == threads[t].pc = "idle" /\ threads[t].done < MaxCalls

\* the steps of thread t when every swap passes the reverse value of the run
ThreadStep(t) ==
    \/ \E id0, id1 \in MapIds :
            MayCall(t) /\ SwapCall(t, id0, id1, threads[t].reverse)
    \/ SwapFirst(t)
    \/ SwapSecond(t)
    \/ SwapUnlock(t)
    \/ \E v \in MapValues : MayCall(t) /\ InsertFetchAdd(t, v)
    \/ SelectLoad(t)
    \/ InsertLock(t)
    \/ InsertAdd(t)
    \/ InsertRet(t)
    \/ \E id \in MapIds : MayCall(t) /\ RemoveLock(t, id)
    \/ RemoveSub(t)
    \/ Unlock(t)
    \/ \E id \in MapIds : MayCall(t) /\ GetRead(t, id)
    \/ \E id \in MapIds : MayCall(t) /\ ContainsRead(t, id)
    \/ ReadRelease(t)
    \/ \E id \in MapIds, v \in MapValues : MayCall(t) /\ GetMutLock(t, id, v)
    \/ (threads[t].pc = "idle" => MayCall(t)) /\ ClearLock(t)
    \/ ClearStore(t)
    \/ ClearUnlock(t)

NextSwapMixed ==
    \/ SetupInsert
    \/ Spawn
    \/ \E t \in Threads : ThreadStep(t)

SpecSwapMixed == InitSwap /\ [][NextSwapMixed]_vars

\* threads that only call swap, on ids of the filled map and with any
\* `reverse`
NextSwapOnly ==
    \/ SetupInsert
    \/ Spawn
    \/ \E t \in Threads, id0, id1 \in MapIds, reverse \in BOOLEAN :
            MayCall(t) /\ SwapCall(t, id0, id1, reverse)
    \/ \E t \in Threads : SwapFirst(t)
    \/ \E t \in Threads : SwapSecond(t)
    \/ \E t \in Threads : SwapUnlock(t)
    \/ \E t \in Threads : Unlock(t)

SpecSwapOnly == InitSwap /\ [][NextSwapOnly]_vars

\* every thread that can take a step is scheduled again: a thread runs on
\* its own OS thread, and a write() or read() that can succeed returns
SpecSwapMixedFair ==
    SpecSwapMixed /\ \A t \in Threads : WF_vars(ThreadStep(t))

----------------------------------------------------------------------------
(* sync::SlotMap: the packing of shard index and inner id into the exposed  *)
(* id, and insert, get and remove through exposed ids on a map of 4 or 8    *)
(* shards used by one thread.                                               *)

PackedShards == {MinShards, 2 * MinShards}
\* every inner id a word can hold
InnerIds == 0..(2^WordBits - 1)
PackedIds == 0..(2 * MaxPacked)

\* remove(id) called while no other call is in progress
SyncSlotMap_remove(m, id) ==
    LET sp == SyncSlotMap_split(m, id)
        sh == ShardAt(m, sp[1])
        r == SlotMap_remove(sh.inner, sp[2])
    IN  IF r.ret = None
        THEN [m |-> m, ret |-> None]
        ELSE [m |-> [m EXCEPT !.shards[sp[1] + 1] =
                            [sh EXCEPT !.inner = r.m, !.len = @ - 1]],
              ret |-> r.ret]

\* with_num_shards_unchecked(num_shards)
Build(num_shards) ==
    /\ smap = NotBuilt
    /\ smap' = SyncSlotMap_with_num_shards_unchecked(num_shards)
    /\ op' = Call("with_num_shards_unchecked", num_shards, NoArg, NoArg, None)
    /\ UNCHANGED <<map, shadow, net, freed, heap, guard, balance, rwlock, threads>>

\* merge(shard_index, id) and split of the result, as the first call on the
\* map just built
Pack(shard_index, id) ==
    /\ op.name = "with_num_shards_unchecked"
    /\ shard_index < SyncSlotMap_num_shards(smap)
    /\ op' = Call("merge", shard_index, id, NoArg,
                  <<SyncSlotMap_merge(smap, shard_index, id),
                    SyncSlotMap_split(smap, SyncSlotMap_merge(smap, shard_index, id))>>)
    /\ UNCHANGED <<smap, map, shadow, net, freed, heap, guard, balance, rwlock, threads>>

\* insert(value); the id returned is recorded with the value, and the
\* program inserts the number of the call
SeqInsert(value) ==
    /\ smap # NotBuilt
    /\ LET r == SyncSlotMap_insert(smap, value) IN
        /\ smap' = r.m
        /\ shadow' = [i \in DOMAIN shadow \cup {r.id} |->
                        IF i = r.id THEN value ELSE shadow[i]]
        /\ op' = Call("insert", NoArg, NoArg, value, Some(r.id))
    /\ UNCHANGED <<map, net, freed, heap, guard, balance, rwlock, threads>>

\* remove(id)
SeqRemove(id) ==
    /\ smap # NotBuilt
    /\ LET r == SyncSlotMap_remove(smap, id) IN
        /\ smap' = r.m
        /\ shadow' = IF r.ret = None THEN shadow
                     ELSE [i \in DOMAIN shadow \ {id} |-> shadow[i]]
        /\ op' = Call("remove", id, NoArg, NoArg, r.ret)
    /\ UNCHANGED <<map, net, freed, heap, guard, balance, rwlock, threads>>

NextPack ==
    \/ \E num_shards \in PackedShards : Build(num_shards)
    \/ \E shard_index \in 0..(2 * MinShards - 1), id \in InnerIds : Pack(shard_index, id)
    \/ smap.rr < MaxPacked /\ SeqInsert(smap.rr)
    \/ \E id \in PackedIds : SeqRemove(id)

SpecPack == InitShards /\ [][NextPack]_vars

----------------------------------------------------------------------------
(* sync::SlotMap: lazy_insert, LazyInsert::commit and the drop of an        *)
(* uncommitted LazyInsert, called by threads together with insert and       *)
(* remove.                                                                  *)

\* ids the threads pass to remove: the ids of the filled map and one more
LazyIds == 0..Populated

\* the map is built, the threads are not spawned yet
InitFilled ==
    /\ map = SlotMap_new
    /\ op = Call("new", NoArg, NoArg, NoArg, None)
    /\ shadow = <<>>
    /\ net = 0
    /\ freed = <<>>
    /\ heap = SlotHeap_new
    /\ guard = NoGuard
    /\ balance = [k \in PKeys |-> 0]
    /\ rwlock = Unwrapped
    /\ smap = SyncSlotMap_with_num_shards_unchecked(MinShards)
    /\ threads = [t \in Threads |-> [ThreadIdle EXCEPT !.pc = "unspawned"]]

\* lazy_insert, first step: select_shard's rr.fetch_add(1)
LazyFetchAdd(t) ==
    /\ threads[t].pc = "idle"
    /\ smap' = [smap EXCEPT !.rr = @ + 1]
    /\ threads' = [threads EXCEPT ![t] =
            [@ EXCEPT !.pc = "select", !.name = "lazy_insert", !.a = NoArg,
                      !.b = NoArg, !.v = NoArg, !.rr = smap.rr, !.i = 0,
                      !.min = None, !.ret = None]]
    /\ UNCHANGED unsyncVars

\* lazy_insert: shard.inner.write(), guard.prepare_lazy_insert(); the call
\* returns (merge(shard_index, id), LazyInsert) and the handle keeps the guard
LazyLock(t) ==
    /\ threads[t].pc = "lazy_lock"
    /\ LET th == threads[t]
           sh == ShardAt(smap, th.shard)
           r == SlotMap_prepare_lazy_insert(sh.inner)
       IN
        /\ CanWrite(sh)
        /\ smap' = [smap EXCEPT !.shards[th.shard + 1] =
                        [sh EXCEPT !.inner = r.m, !.writer = t]]
        /\ threads' = [threads EXCEPT ![t] =
                [@ EXCEPT !.pc = "lazy_held", !.id = r.id,
                          !.ret = Some(SyncSlotMap_merge(smap, th.shard, r.id))]]
    /\ UNCHANGED unsyncVars

\* LazyInsert::commit(value): guard.commit_lazy_insert(id, value)
LazyCommit(t, value) ==
    /\ threads[t].pc = "lazy_held"
    /\ smap' = [smap EXCEPT !.shards[threads[t].shard + 1].inner =
                    SlotMap_commit_lazy_insert(@, threads[t].id, value)]
    /\ threads' = [threads EXCEPT ![t] = [@ EXCEPT !.pc = "lazy_add", !.v = value]]
    /\ UNCHANGED unsyncVars

\* faulty commit: the shard's count is not incremented
LazyAdd_skip(t) ==
    /\ threads[t].pc = "lazy_add"
    /\ threads' = [threads EXCEPT ![t] = [@ EXCEPT !.pc = "lazy_unlock"]]
    /\ UNCHANGED <<smap, unsyncVars>>

\* LazyInsert::commit: shard.len.fetch_add(1)
LazyAdd(t) ==
    /\ threads[t].pc = "lazy_add"
    /\ smap' = [smap EXCEPT !.shards[threads[t].shard + 1].len = @ + 1]
    /\ threads' = [threads EXCEPT ![t] = [@ EXCEPT !.pc = "lazy_unlock"]]
    /\ UNCHANGED unsyncVars

\* faulty drop: the reserved slot is not handed back
LazyDrop_leak(t) ==
    /\ threads[t].pc = "lazy_held"
    /\ threads' = [threads EXCEPT ![t] = [@ EXCEPT !.pc = "lazy_unlock"]]
    /\ UNCHANGED <<smap, unsyncVars>>

\* Drop for LazyInsert: guard.drop_lazy_insert(id)
LazyDrop(t) ==
    /\ threads[t].pc = "lazy_held"
    /\ smap' = [smap EXCEPT !.shards[threads[t].shard + 1].inner =
                    SlotMap_drop_lazy_insert(@, threads[t].id)]
    /\ threads' = [threads EXCEPT ![t] = [@ EXCEPT !.pc = "lazy_unlock"]]
    /\ UNCHANGED unsyncVars

\* ManuallyDrop::drop(&mut self.guard): the write lock is released; the
\* thread keeps the id of a committed value with the value
LazyUnlock(t) ==
    /\ threads[t].pc = "lazy_unlock"
    /\ LET th == threads[t] IN
        /\ smap' = [smap EXCEPT !.shards[th.shard + 1].writer = 0]
        /\ threads' = [threads EXCEPT ![t] =
                [@ EXCEPT !.pc = "idle", !.done = @ + 1,
                          !.ids = IF th.v = NoArg THEN @
                                  ELSE Append(@, <<th.ret[1], th.v>>)]]
    /\ UNCHANGED unsyncVars

\* a thread may start another call of the program
MayOp(t) == threads[t].pc = "idle" /\ threads[t].done < MaxOps

\* the value thread t stores in its next call
NextValue(t) == 10 * t + threads[t].done

\* threads that, on a filled map, insert, remove any id and lazily insert,
\* committing the reservation or dropping it
NextLazy ==
    \/ SetupInsert
    \/ Spawn
    \/ \E t \in Threads : MayOp(t) /\ InsertFetchAdd(t, NextValue(t))
    \/ \E t \in Threads : MayOp(t) /\ LazyFetchAdd(t)
    \/ \E t \in Threads : SelectLoad(t)
    \/ \E t \in Threads : InsertLock(t)
    \/ \E t \in Threads : InsertAdd(t)
    \/ \E t \in Threads : InsertRet(t)
    \/ \E t \in Threads : LazyLock(t)
    \/ \E t \in Threads : LazyCommit(t, NextValue(t))
    \/ \E t \in Threads : LazyAdd(t)
    \/ \E t \in Threads : LazyDrop(t)
    \/ \E t \in Threads : LazyUnlock(t)
    \/ \E t \in Threads, id \in LazyIds : MayOp(t) /\ RemoveLock(t, id)
    \/ \E t \in Threads : RemoveSub(t)
    \/ \E t \in Threads : Unlock(t)

SpecLazy == InitFilled /\ [][NextLazy]_vars

\* the shard counts with_num_shards accepts
SelectShards == {n \in 0..MaxSelectShards : SyncSlotMap_with_num_shards(n) # None}

\* the insert / remove / lazy-insert program on a map of any accepted shard count
InitSelect ==
    /\ map = SlotMap_new
    /\ op = Call("new", NoArg, NoArg, NoArg, None)
    /\ shadow = <<>>
    /\ net = 0
    /\ freed = <<>>
    /\ heap = SlotHeap_new
    /\ guard = NoGuard
    /\ balance = [k \in PKeys |-> 0]
    /\ rwlock = Unwrapped
    /\ \E n \in SelectShards : smap = SyncSlotMap_with_num_shards(n)[1]
    /\ threads = [t \in Threads |-> [ThreadIdle EXCEPT !.pc = "unspawned"]]

SpecSelect == InitSelect /\ [][NextLazy]_vars

\* the insert / remove / lazy-insert program with calls of clear
NextCounters ==
    \/ NextLazy
    \/ \E t \in Threads : (MayOp(t) \/ threads[t].pc = "clear_next") /\ ClearLock(t)
    \/ \E t \in Threads : ClearStore(t)
    \/ \E t \in Threads : ClearUnlock(t)

SpecCounters == InitFilled /\ [][NextCounters]_vars

\* clear under insert load: one thread calls clear once while the others
\* insert
Clearer == 1

NextClearLoad ==
    \/ SetupInsert
    \/ Spawn
    \/ \E t \in Threads \ {Clearer} :
            (threads[t].pc = "idle" /\ threads[t].done < OpsPerThread)
                /\ InsertFetchAdd(t, NextValue(t))
    \/ \E t \in Threads : SelectLoad(t)
    \/ \E t \in Threads : InsertLock(t)
    \/ \E t \in Threads : InsertAdd(t)
    \/ \E t \in Threads : InsertRet(t)
    \/ (threads[Clearer].done = 0 \/ threads[Clearer].pc = "clear_next")
            /\ ClearLock(Clearer)
    \/ ClearStore(Clearer)
    \/ ClearUnlock(Clearer)

SpecClearLoad == InitFilled /\ [][NextClearLoad]_vars

(* sync::SlotMap::len and is_empty: one relaxed load per shard, in shard    *)
(* order, with no lock taken. Each load is a step of its own.               *)

RECURSIVE SumReads(_)
\* the sum of the counts a call has loaded so far
SumReads(reads) == IF reads = <<>> THEN 0 ELSE reads[1][2] + SumReads(Tail(reads))

\* faulty len: the load waits until no writer holds the shard
LenLoad_locked(t) ==
    /\ threads[t].pc \in {"idle", "len"}
    /\ LET th == threads[t]
           index == IF th.pc = "idle" THEN 0 ELSE th.i
           len == ShardAt(smap, index).len
           reads == IF th.pc = "idle" THEN <<>> ELSE th.reads
       IN
        /\ CanRead(ShardAt(smap, index))
        /\ threads' = [threads EXCEPT ![t] =
                IF index + 1 = SyncSlotMap_num_shards(smap)
                THEN [@ EXCEPT !.pc = "idle", !.name = "len", !.i = 0, !.reads = <<>>,
                               !.ret = Some(SumReads(reads) + len), !.done = @ + 1]
                ELSE [@ EXCEPT !.pc = "len", !.name = "len", !.a = NoArg, !.b = NoArg,
                               !.v = NoArg, !.i = index + 1, !.ret = None,
                               !.reads = Append(reads, <<index, len>>)]]
    /\ UNCHANGED <<smap, unsyncVars>>

\* len(): shard.len.load(Relaxed) of the next shard; the call starts with the
\* load of shard 0 and returns the sum after the load of the last shard
LenLoad(t) ==
    /\ threads[t].pc \in {"idle", "len"}
    /\ LET th == threads[t]
           index == IF th.pc = "idle" THEN 0 ELSE th.i
           len == ShardAt(smap, index).len
           reads == IF th.pc = "idle" THEN <<>> ELSE th.reads
       IN  threads' = [threads EXCEPT ![t] =
                IF index + 1 = SyncSlotMap_num_shards(smap)
                THEN [@ EXCEPT !.pc = "idle", !.name = "len", !.i = 0, !.reads = <<>>,
                               !.ret = Some(SumReads(reads) + len), !.done = @ + 1]
                ELSE [@ EXCEPT !.pc = "len", !.name = "len", !.a = NoArg, !.b = NoArg,
                               !.v = NoArg, !.i = index + 1, !.ret = None,
                               !.reads = Append(reads, <<index, len>>)]]
    /\ UNCHANGED <<smap, unsyncVars>>

\* is_empty(): shard.len.load(Relaxed) == 0 of the next shard; all() stops at
\* the first shard whose count is not zero
IsEmptyLoad(t) ==
    /\ threads[t].pc \in {"idle", "is_empty"}
    /\ LET th == threads[t]
           index == IF th.pc = "idle" THEN 0 ELSE th.i
           len == ShardAt(smap, index).len
       IN  threads' = [threads EXCEPT ![t] =
                IF len # 0 \/ index + 1 = SyncSlotMap_num_shards(smap)
                THEN [@ EXCEPT !.pc = "idle", !.name = "is_empty", !.i = 0,
                               !.a = NoArg, !.b = NoArg, !.v = NoArg,
                               !.ret = None, !.found = (len = 0), !.done = @ + 1]
                ELSE [@ EXCEPT !.pc = "is_empty", !.name = "is_empty", !.a = NoArg,
                               !.b = NoArg, !.v = NoArg, !.i = index + 1,
                               !.ret = None]]
    /\ UNCHANGED <<smap, unsyncVars>>

\* threads that, on a filled map, insert, remove any id and ask for len and
\* is_empty
NextLen ==
    \/ SetupInsert
    \/ Spawn
    \/ \E t \in Threads : MayOp(t) /\ InsertFetchAdd(t, NextValue(t))
    \/ \E t \in Threads : SelectLoad(t)
    \/ \E t \in Threads : InsertLock(t)
    \/ \E t \in Threads : InsertAdd(t)
    \/ \E t \in Threads : InsertRet(t)
    \/ \E t \in Threads, id \in LazyIds : MayOp(t) /\ RemoveLock(t, id)
    \/ \E t \in Threads : RemoveSub(t)
    \/ \E t \in Threads : Unlock(t)
    \/ \E t \in Threads : (MayOp(t) \/ threads[t].pc = "len") /\ LenLoad(t)
    \/ \E t \in Threads : (MayOp(t) \/ threads[t].pc = "is_empty") /\ IsEmptyLoad(t)

SpecLen == InitFilled /\ [][NextLen]_vars

\* the steps of a thread that makes calls of every method of the map
ReserveStep(t) ==
    \/ ThreadStep(t)
    \/ MayCall(t) /\ LazyFetchAdd(t)
    \/ LazyLock(t)
    \/ LazyCommit(t, NextValue(t))
    \/ LazyAdd(t)
    \/ LazyDrop(t)
    \/ LazyUnlock(t)
    \/ (MayCall(t) \/ threads[t].pc = "len") /\ LenLoad(t)
    \/ (MayCall(t) \/ threads[t].pc = "is_empty") /\ IsEmptyLoad(t)

NextReserve ==
    \/ SetupInsert
    \/ Spawn
    \/ \E t \in Threads : ReserveStep(t)

SpecReserve == InitSwap /\ [][NextReserve]_vars

----------------------------------------------------------------------------
(* sync::SlotHeap called by threads. Every method takes the RwLock around   *)
(* the inner heap: a writing method holds it from write() to its return, a  *)
(* mutation guard from its creation to the end of its drop, a reading       *)
(* method and the read guard it returns from read() to the guard's drop.    *)
(* While a thread is inside a call its record names the method and tells    *)
(* whether the call found the element it asked for.                         *)

HeapReaders == {t \in DOMAIN threads : threads[t].pc = "heap_read"}

\* RwLock::write() and RwLock::read() on the heap's lock return at once
CanWriteHeap == ~rwlock.locked /\ HeapReaders = {}
CanReadHeap == ~rwlock.locked

InitSyncHeapThreads ==
    /\ map = SlotMap_new
    /\ op = Call("new", NoArg, NoArg, NoArg, None)
    /\ shadow = <<>>
    /\ net = 0
    /\ freed = <<>>
    /\ heap = SlotHeap_new
    /\ guard = NoGuard
    /\ balance = [k \in PKeys |-> 0]
    /\ rwlock = RwLock_new
    /\ smap = NotBuilt
    /\ threads = [t \in Threads |-> ThreadIdle]

heapFrame == <<map, shadow, net, freed, balance, smap, op>>

\* insert(key, value): self.inner.write().insert(key, value)
SHInsert(t, k, v) ==
    /\ threads[t].pc = "idle"
    /\ CanWriteHeap
    /\ heap' = SlotHeap_insert(heap, k, v).h
    /\ threads' = [threads EXCEPT ![t] =
            [@ EXCEPT !.pc = "heap_write", !.name = "insert", !.found = TRUE]]
    /\ rwlock' = [rwlock EXCEPT !.locked = TRUE]
    /\ UNCHANGED <<guard, heapFrame>>

\* pop(): self.inner.write().pop()
SHPop(t) ==
    /\ threads[t].pc = "idle"
    /\ CanWriteHeap
    /\ heap' = SlotHeap_pop(heap).h
    /\ threads' = [threads EXCEPT ![t] =
            [@ EXCEPT !.pc = "heap_write", !.name = "pop",
                      !.found = SlotHeap_pop(heap).ret # None]]
    /\ rwlock' = [rwlock EXCEPT !.locked = TRUE]
    /\ UNCHANGED <<guard, heapFrame>>

\* remove(id): self.inner.write().remove(id)
SHRemove(t, id) ==
    /\ threads[t].pc = "idle"
    /\ CanWriteHeap
    /\ heap' = SlotHeap_remove(heap, id).h
    /\ threads' = [threads EXCEPT ![t] =
            [@ EXCEPT !.pc = "heap_write", !.name = "remove",
                      !.found = SlotHeap_remove(heap, id).ret # None]]
    /\ rwlock' = [rwlock EXCEPT !.locked = TRUE]
    /\ UNCHANGED <<guard, heapFrame>>

\* the write guard of the call is dropped
SHRelease(t) ==
    /\ threads[t].pc = "heap_write"
    /\ rwlock' = [rwlock EXCEPT !.locked = FALSE]
    /\ threads' = [threads EXCEPT ![t] =
            [@ EXCEPT !.pc = "idle", !.name = "none", !.found = FALSE]]
    /\ UNCHANGED <<heap, guard, heapFrame>>

\* peek_mut / peek_key_mut: write(); an empty heap returns None, else the
\* guard keeps the write guard and lends position 0
SHPeekMut(t, kind) ==
    /\ threads[t].pc = "idle"
    /\ CanWriteHeap
    /\ guard' = IF SlotHeap_is_empty(heap) THEN NoGuard
                ELSE [kind |-> kind, index |-> 0, dirty |-> FALSE]
    /\ threads' = [threads EXCEPT ![t] =
            [@ EXCEPT !.pc = IF SlotHeap_is_empty(heap) THEN "heap_write"
                             ELSE "heap_guard",
                      !.name = kind, !.found = ~SlotHeap_is_empty(heap)]]
    /\ rwlock' = [rwlock EXCEPT !.locked = TRUE]
    /\ UNCHANGED <<heap, heapFrame>>

\* faulty get_mut: the return of None leaves the write guard behind
SHGetMut_none_keeps_lock(t, kind, id) ==
    /\ threads[t].pc = "idle"
    /\ CanWriteHeap
    /\ LET index == SlotHeap_get_index(heap, id) IN
        /\ guard' = IF index = None THEN NoGuard
                    ELSE [kind |-> kind, index |-> index[1], dirty |-> FALSE]
        /\ threads' = [threads EXCEPT ![t] =
                IF index = None THEN @
                ELSE [@ EXCEPT !.pc = "heap_guard", !.name = kind, !.found = TRUE]]
    /\ rwlock' = [rwlock EXCEPT !.locked = TRUE]
    /\ UNCHANGED <<heap, heapFrame>>

\* get_mut / get_key_mut: write(), the position of id is looked up; None is
\* returned for an id that is not live, else the guard keeps the write
\* guard and the position
SHGetMut(t, kind, id) ==
    /\ threads[t].pc = "idle"
    /\ CanWriteHeap
    /\ LET index == SlotHeap_get_index(heap, id) IN
        /\ guard' = IF index = None THEN NoGuard
                    ELSE [kind |-> kind, index |-> index[1], dirty |-> FALSE]
        /\ threads' = [threads EXCEPT ![t] =
                [@ EXCEPT !.pc = IF index = None THEN "heap_write" ELSE "heap_guard",
                          !.name = kind, !.found = index # None]]
    /\ rwlock' = [rwlock EXCEPT !.locked = TRUE]
    /\ UNCHANGED <<heap, heapFrame>>

\* deref_mut of the guard thread t holds, followed by a store
SHDerefMut(t, k, v) ==
    /\ threads[t].pc = "heap_guard"
    /\ LET old == At(heap.entries, guard.index)
           item == IF guard.kind \in SyncKeyOnlyKinds THEN <<k, old.item[2]>> ELSE <<k, v>>
       IN
        /\ guard.kind \in SyncKeyOnlyKinds => v = old.item[2]
        /\ heap' = SlotHeap_by_index_mut_store(heap, guard.index, item)
    /\ guard' = [guard EXCEPT !.dirty = TRUE]
    /\ UNCHANGED <<rwlock, threads, heapFrame>>

\* faulty drop: the lent position is not re-heapified
SHDrop_no_heapify(t) ==
    /\ threads[t].pc = "heap_guard"
    /\ guard' = NoGuard
    /\ threads' = [threads EXCEPT ![t] = [@ EXCEPT !.pc = "heap_write"]]
    /\ UNCHANGED <<heap, rwlock, heapFrame>>

\* Drop for the guard: heapify from the kept position when dirty; the write
\* guard, a field of the guard, is dropped after that
SHDrop(t) ==
    /\ threads[t].pc = "heap_guard"
    /\ heap' = IF guard.dirty THEN SlotHeap_heapify(heap, guard.index) ELSE heap
    /\ guard' = NoGuard
    /\ threads' = [threads EXCEPT ![t] = [@ EXCEPT !.pc = "heap_write"]]
    /\ UNCHANGED <<rwlock, heapFrame>>

\* a reading method (len, peek, get, ...): self.inner.read(); the lock is
\* kept while the value or the mapped read guard is in use
SHRead(t) ==
    /\ threads[t].pc = "idle"
    /\ CanReadHeap
    /\ threads' = [threads EXCEPT ![t] = [@ EXCEPT !.pc = "heap_read"]]
    /\ UNCHANGED <<heap, guard, rwlock, heapFrame>>

\* the read guard is dropped
SHReadRelease(t) ==
    /\ threads[t].pc = "heap_read"
    /\ threads' = [threads EXCEPT ![t] =
            [@ EXCEPT !.pc = "idle", !.name = "none", !.found = FALSE]]
    /\ UNCHANGED <<heap, guard, rwlock, heapFrame>>

NextSyncHeap ==
    \/ \E t \in Threads, k \in Keys, v \in HeapValues :
            SlotHeap_len(heap) < MaxGuarded /\ SHInsert(t, k, v)
    \/ \E t \in Threads : SHPop(t)
    \/ \E t \in Threads, id \in GuardedIds : SHRemove(t, id)
    \/ \E t \in Threads : SHRelease(t)
    \/ \E t \in Threads, kind \in SyncPeekKinds : SHPeekMut(t, kind)
    \/ \E t \in Threads, kind \in SyncRefKinds, id \in GuardedIds : SHGetMut(t, kind, id)
    \/ \E t \in Threads, k \in Keys, v \in HeapValues : SHDerefMut(t, k, v)
    \/ \E t \in Threads : SHDrop(t)
    \/ \E t \in Threads : SHRead(t)
    \/ \E t \in Threads : SHReadRelease(t)

SpecSyncHeap == InitSyncHeapThreads /\ [][NextSyncHeap]_vars

\* peek(): RwLockReadGuard::try_map(self.inner.read(), |inner| inner.peek());
\* the caller keeps the mapped guard, or None is returned and the guard dropped
SHPeek(t) ==
    /\ threads[t].pc = "idle"
    /\ CanReadHeap
    /\ threads' = [threads EXCEPT ![t] =
            [@ EXCEPT !.pc = "heap_read", !.name = "peek",
                      !.found = SlotHeap_peek(heap) # None]]
    /\ UNCHANGED <<heap, guard, rwlock, heapFrame>>

\* get(id): RwLockReadGuard::try_map(self.inner.read(), |inner| inner.get(id))
SHGet(t, id) ==
    /\ threads[t].pc = "idle"
    /\ CanReadHeap
    /\ threads' = [threads EXCEPT ![t] =
            [@ EXCEPT !.pc = "heap_read", !.name = "get",
                      !.found = SlotHeap_get(heap, id) # None]]
    /\ UNCHANGED <<heap, guard, rwlock, heapFrame>>

\* peek_value_mut(): RwLockWriteGuard::try_map(self.inner.write(), ...) and
\* a store of v through the guard the caller receives
SHPeekValueMut(t, v) ==
    /\ threads[t].pc = "idle"
    /\ CanWriteHeap
    /\ LET r == SlotHeap_peek_value_mut_store(heap, v) IN
        /\ heap' = r.h
        /\ threads' = [threads EXCEPT ![t] =
                [@ EXCEPT !.pc = "heap_write", !.name = "peek_value_mut",
                          !.found = r.ret # None]]
    /\ rwlock' = [rwlock EXCEPT !.locked = TRUE]
    /\ UNCHANGED <<guard, heapFrame>>

\* get_value_mut(id): RwLockWriteGuard::try_map(self.inner.write(), ...) and
\* a store of v through the guard the caller receives
SHGetValueMut(t, id, v) ==
    /\ threads[t].pc = "idle"
    /\ CanWriteHeap
    /\ LET r == SlotHeap_get_value_mut_store(heap, id, v) IN
        /\ heap' = r.h
        /\ threads' = [threads EXCEPT ![t] =
                [@ EXCEPT !.pc = "heap_write", !.name = "get_value_mut",
                          !.found = r.ret # None]]
    /\ rwlock' = [rwlock EXCEPT !.locked = TRUE]
    /\ UNCHANGED <<guard, heapFrame>>

\* threads that use a concurrent SlotMap, or threads that use a concurrent
\* SlotHeap, with every method that can return None
InitAbsent == InitSwap \/ InitSyncHeapThreads

NextAbsent ==
    \/ smap # NotBuilt /\ NextSwapMixed
    \/ /\ rwlock.wrapped
       /\ \/ \E t \in Threads, k \in Keys, v \in HeapValues :
                    SlotHeap_len(heap) < MaxGuarded /\ SHInsert(t, k, v)
          \/ \E t \in Threads : SHPop(t)
          \/ \E t \in Threads, id \in GuardedIds : SHRemove(t, id)
          \/ \E t \in Threads : SHRelease(t)
          \/ \E t \in Threads, kind \in SyncPeekKinds : SHPeekMut(t, kind)
          \/ \E t \in Threads, kind \in SyncRefKinds, id \in GuardedIds :
                    SHGetMut(t, kind, id)
          \/ \E t \in Threads, k \in Keys, v \in HeapValues : SHDerefMut(t, k, v)
          \/ \E t \in Threads : SHDrop(t)
          \/ \E t \in Threads : SHPeek(t)
          \/ \E t \in Threads, id \in GuardedIds : SHGet(t, id)
          \/ \E t \in Threads, v \in HeapValues : SHPeekValueMut(t, v)
          \/ \E t \in Threads, id \in GuardedIds, v \in HeapValues :
                    SHGetValueMut(t, id, v)
          \/ \E t \in Threads : SHReadRelease(t)

SpecAbsent == InitAbsent /\ [][NextAbsent]_vars

----------------------------------------------------------------------------
(* Observations on a SlotMap value used by the properties below.            *)

Positions(m) == 0..(Len(m.entries) - 1)
LiveIds(m) == {i \in Positions(m) : At(m.entries, i).ok}
FreeIds(m) == {i \in Positions(m) : ~At(m.entries, i).ok}
SeqRange(s) == {s[i] : i \in DOMAIN s}
Last(s) == s[Len(s)]
Front(s) == SubSeq(s, 1, Len(s) - 1)

\* The positions met by starting at `cur` and following the links stored in
\* free slots; the walk stops at the first position that is out of bounds or
\* live, or after `fuel` links.
RECURSIVE FreeWalk(_, _, _)
FreeWalk(m, cur, fuel) ==
    IF fuel = 0 \/ cur < 0 \/ cur >= Len(m.entries) \/ At(m.entries, cur).ok
    THEN <<cur>>
    ELSE <<cur>> \o FreeWalk(m, At(m.entries, cur).v, fuel - 1)

FreeChain(m) == FreeWalk(m, m.next, Len(m.entries) + 1)

FreeListOK(m) ==
    /\ Last(FreeChain(m)) = Len(m.entries)
    /\ SeqRange(Front(FreeChain(m))) = FreeIds(m)
    /\ Len(FreeChain(m)) - 1 = Cardinality(FreeIds(m))

----------------------------------------------------------------------------
(* Properties of the single-threaded SlotMap.                               *)

\* C1: an id returned by insert(v) stays live and get(id) yields the value
\* stored under it, through every later insert and every remove of other
\* ids, until remove(id) succeeds or the map is cleared.
C1_InsertedStaysLive ==
    \A id \in DOMAIN shadow :
        /\ SlotMap_contains(map, id)
        /\ SlotMap_get(map, id) = Some(shadow[id])

\* an id inserted earlier is still live after another id was removed and
\* while a freed slot is waiting to be reused
C1_Witness ==
    /\ op.name = "remove"
    /\ op.ret # None
    /\ \E id \in DOMAIN shadow : id # op.a /\ SlotMap_get(map, id) = Some(shadow[id])

\* C2: remove(id) on a live id returns the stored value; afterwards, and as
\* long as no insert has reused the slot, contains(id) is false, get(id) is
\* None and remove(id) returns None.
C2_RemovedStaysDead ==
    [][ /\ (op'.name = "remove" /\ op'.a \in DOMAIN shadow)
            => op'.ret = Some(shadow[op'.a])
        /\ \A id \in SeqRange(freed') :
            /\ ~SlotMap_contains(map', id)
            /\ SlotMap_get(map', id) = None
            /\ SlotMap_remove(map', id).ret = None
            /\ SlotMap_remove(map', id).m = map' ]_vars

\* a second remove of an id that was removed before and not reused
C2_Witness ==
    /\ op.name = "remove"
    /\ op.ret = None
    /\ op.a \in SeqRange(freed)
    /\ map.len > 0

\* C3: insert returns the most recently freed id that has not been reused;
\* when no freed id is left it returns a fresh id equal to the backing length.
C3_ReuseOrder ==
    [][ op'.name = "insert" =>
            op'.ret = Some(IF freed # <<>> THEN Head(freed) ELSE Len(map.entries)) ]_vars

\* an insert has just reused a freed id while an older freed id is still waiting
C3_Witness ==
    /\ op.name = "insert"
    /\ op.ret # Some(Len(map.entries) - 1)
    /\ freed # <<>>

\* C4: len() is the number of live slots and equals inserts minus successful
\* removes since the last clear.
C4_LenIsLiveCount ==
    /\ SlotMap_len(map) = Cardinality(LiveIds(map))
    /\ SlotMap_len(map) = net

\* a failed remove on a map that has both live and free slots
C4_Witness ==
    /\ op.name = "remove"
    /\ op.ret = None
    /\ map.len > 0
    /\ FreeIds(map) # {}

\* C5: following the links from `next` visits every free slot exactly once,
\* no live slot, and ends at the backing length.
C5_FreeList == FreeListOK(map)

\* two free slots chained through a map that still has a live slot, the
\* older link pointing past a live slot
C5_Witness ==
    /\ Cardinality(FreeIds(map)) >= 2
    /\ LiveIds(map) # {}
    /\ map.next # 0

\* C6: with an id that is out of bounds or names a free slot, get, get_mut,
\* remove and swap return None, contains returns false, and the map is
\* unchanged.
C6_InvalidId ==
    [][ /\ (op'.name \in {"get", "get_mut", "remove"} /\ op'.a \notin LiveIds(map))
            => (op'.ret = None /\ map' = map)
        /\ (op'.name = "contains" /\ op'.a \notin LiveIds(map))
            => (op'.ret = Some(FALSE) /\ map' = map)
        /\ (op'.name = "swap" /\ (op'.a \notin LiveIds(map) \/ op'.b \notin LiveIds(map)))
            => (op'.ret = None /\ map' = map) ]_vars

\* a swap of a live id with a free slot's id was refused
C6_Witness ==
    /\ op.name = "swap"
    /\ op.ret = None
    /\ op.a \in LiveIds(map)
    /\ op.b \in FreeIds(map)

\* C7: swap(a, b) of two live ids succeeds and exchanges exactly the two
\* values; every other slot, len and the free list are unchanged; swap(a, a)
\* changes nothing; a second swap(a, b) restores the map.
C7_Swap ==
    [][ (op'.name = "swap" /\ op'.a \in LiveIds(map) /\ op'.b \in LiveIds(map)) =>
            /\ op'.ret = Some(<<>>)
            /\ SlotMap_get(map', op'.a) = SlotMap_get(map, op'.b)
            /\ SlotMap_get(map', op'.b) = SlotMap_get(map, op'.a)
            /\ Len(map'.entries) = Len(map.entries)
            /\ \A i \in Positions(map) \ {op'.a, op'.b} :
                    At(map'.entries, i) = At(map.entries, i)
            /\ map'.len = map.len
            /\ map'.next = map.next
            /\ FreeChain(map') = FreeChain(map)
            /\ (op'.a = op'.b => map' = map)
            /\ SlotMap_swap(map', op'.a, op'.b).m = map ]_vars

\* two distinct live ids holding different values were swapped in a map
\* that also has a free slot
C7_Witness ==
    /\ op.name = "swap"
    /\ op.ret # None
    /\ op.a # op.b
    /\ SlotMap_get(map, op.a) # SlotMap_get(map, op.b)
    /\ FreeIds(map) # {}

----------------------------------------------------------------------------
(* Observations on a SlotHeap value.                                        *)

HeapPositions(h) == 0..(Len(h.entries) - 1)

\* no entry is smaller than its parent under Ord for Entry
HeapOrder(h) ==
    \A i \in HeapPositions(h) \ {0} :
        ~Entry_lt(At(h.entries, i), At(h.entries, (i - 1) \div 2))

\* the index map and the entries mirror each other
IndexMirror(h) ==
    /\ \A p \in HeapPositions(h) :
            SlotMap_get(h.indices, At(h.entries, p).id) = Some(p)
    /\ \A id \in LiveIds(h.indices) :
            LET p == SlotMap_get_unchecked(h.indices, id) IN
                /\ p \in HeapPositions(h)
                /\ At(h.entries, p).id = id
    /\ SlotMap_len(h.indices) = Len(h.entries)

\* the keys returned by calling pop until it returns None
RECURSIVE PopAllKeys(_)
PopAllKeys(h) ==
    LET r == SlotHeap_pop(h) IN
    IF r.ret = None THEN <<>> ELSE <<r.ret[1][1]>> \o PopAllKeys(r.h)

NonDecreasing(s) == \A i \in 1..(Len(s) - 1) : s[i] <= s[i + 1]
Count(s, x) == Cardinality({i \in DOMAIN s : s[i] = x})

----------------------------------------------------------------------------
(* Properties of the single-threaded SlotHeap.                              *)

\* C8: with totally ordered keys, after any sequence of insert, pop and
\* remove(id), popping until None yields the keys in non-decreasing order,
\* and the keys returned by pop and remove so far together with the keys
\* still to be popped are exactly the keys inserted, each as often.
C8_PopsSortedNothingLost ==
    LET ks == PopAllKeys(heap) IN
        /\ NonDecreasing(ks)
        /\ \A k \in Keys : Count(ks, k) = balance[k]

\* an element below the root was removed from a full heap that holds both
\* keys and whose ids are no longer in insertion positions
C8_Witness ==
    /\ op.name = "remove"
    /\ op.ret # None
    /\ Len(heap.entries) = MaxHeap - 1
    /\ \A k \in Keys : balance[k] > 0
    /\ FreeIds(heap.indices) # {}

\* C9 as claimed: outside a guard's scope no entry is smaller than its
\* parent under the (key, then id) comparator, for every key type the heap
\* accepts.
C9_HeapOrder == guard = NoGuard => HeapOrder(heap)

\* C10: outside a guard's scope the index map and the entries are in
\* bijection (indices[entries[p].id] = p for every position, every live id
\* maps to the position of its entry, equal counts), and exchanging any two
\* entries with swap_entries keeps them so.
C10_IndexMirror ==
    guard = NoGuard =>
        /\ IndexMirror(heap)
        /\ \A i \in HeapPositions(heap), j \in HeapPositions(heap) :
                i # j => IndexMirror(SlotHeap_swap_entries(heap, i, j))

\* after a remove the heap still has elements, the index map has a free
\* slot, and some element sits at a position different from its id
C10_Witness ==
    /\ guard = NoGuard
    /\ op.name = "remove"
    /\ op.ret # None
    /\ Len(heap.entries) >= 3
    /\ FreeIds(heap.indices) # {}
    /\ \E p \in HeapPositions(heap) : At(heap.entries, p).id # p

\* C11: every id returned by insert and not yet popped, removed or cleared
\* yields through get, get_key and get_value the pair inserted under it or
\* last written through a guard or a value reference, wherever the element
\* sits in the heap; remove(id) returns that pair; a pop or a guard's remove
\* takes away exactly one live id, the one holding the pair it returns; for
\* an id that is not live get, get_key, get_value and remove return None.
C11_StableIds ==
    [][ /\ \A id \in DOMAIN shadow' :
                /\ SlotHeap_get(heap', id) = Some(shadow'[id])
                /\ SlotHeap_get_key(heap', id) = Some(shadow'[id][1])
                /\ SlotHeap_get_value(heap', id) = Some(shadow'[id][2])
        /\ \A id \in ValuedIds \ DOMAIN shadow' :
                /\ SlotHeap_get(heap', id) = None
                /\ SlotHeap_get_key(heap', id) = None
                /\ SlotHeap_get_value(heap', id) = None
                /\ SlotHeap_remove(heap', id).ret = None
        /\ (op'.name = "remove" /\ op'.a \in DOMAIN shadow)
                => (op'.ret = Some(shadow[op'.a])
                    /\ DOMAIN shadow' = DOMAIN shadow \ {op'.a})
        /\ (op'.name = "insert")
                => (op'.ret[1] \notin DOMAIN shadow
                    /\ DOMAIN shadow' = DOMAIN shadow \cup {op'.ret[1]})
        /\ (op'.name = "pop" /\ op'.ret # None)
                => \E id \in DOMAIN shadow :
                        /\ shadow[id] = op'.ret[1]
                        /\ DOMAIN shadow' = DOMAIN shadow \ {id}
        /\ \A id \in DOMAIN shadow \cap DOMAIN shadow' :
                op'.name \in {"insert", "pop", "remove", "drop"}
                    => shadow'[id] = shadow[id] ]_vars

\* an element inserted earlier sits at a position other than the one it was
\* pushed at, after another element was removed by id, and holds a value
\* different from a neighbour's
C11_Witness ==
    /\ op.name = "remove"
    /\ op.ret # None
    /\ \E id \in DOMAIN shadow :
            /\ SlotHeap_get_unchecked_index(heap, id) # id
            /\ SlotHeap_get(heap, id) = Some(shadow[id])
            /\ shadow[id][2] = 1
    /\ \E id \in DOMAIN shadow : shadow[id][2] = 0

\* the smallest of the keys expected under the live ids
MinKey(sh) ==
    CHOOSE k \in {sh[i][1] : i \in DOMAIN sh} :
        \A j \in DOMAIN sh : k <= sh[j][1]

MaxKeyOf(sh) ==
    CHOOSE k \in {sh[i][1] : i \in DOMAIN sh} :
        \A j \in DOMAIN sh : sh[j][1] <= k

RECURSIVE PopAllIds(_)
PopAllIds(h) ==
    IF SlotHeap_is_empty(h) THEN <<>>
    ELSE <<At(h.entries, 0).id>> \o PopAllIds(SlotHeap_pop(h).h)

\* C14: a store through peek_value_mut or get_value_mut(id) changes the
\* value of the one element addressed and nothing else: the entries keep
\* their order, ids and keys, the index map is unchanged, and the ids come
\* out of successive pops in the same sequence as without the store; on
\* None the heap is unchanged.
C14_ValueWriteFrame ==
    [][ op'.name \in {"peek_value_mut", "get_value_mut"} =>
            IF op'.ret = None THEN heap' = heap
            ELSE LET p == IF op'.name = "peek_value_mut" THEN 0
                          ELSE SlotHeap_get_unchecked_index(heap, op'.a)
                 IN
                /\ Len(heap'.entries) = Len(heap.entries)
                /\ \A i \in HeapPositions(heap) :
                        /\ At(heap'.entries, i).id = At(heap.entries, i).id
                        /\ At(heap'.entries, i).item[1] = At(heap.entries, i).item[1]
                        /\ i # p => At(heap'.entries, i) = At(heap.entries, i)
                /\ At(heap'.entries, p).item[2] = op'.v
                /\ heap'.indices = heap.indices
                /\ PopAllIds(heap') = PopAllIds(heap) ]_vars

\* the value of an element below the root of a full heap was overwritten
\* through get_value_mut with a value another element does not hold
C14_Witness ==
    /\ op.name = "get_value_mut"
    /\ op.ret = Some(1)
    /\ Len(heap.entries) = MaxValued
    /\ SlotHeap_get_unchecked_index(heap, op.a) > 0
    /\ At(heap.entries, 0).item[2] = 0

\* the items returned by calling pop until it returns None
RECURSIVE PopAllItems(_)
PopAllItems(h) ==
    LET r == SlotHeap_pop(h) IN
    IF r.ret = None THEN <<>> ELSE <<r.ret[1]>> \o PopAllItems(r.h)

\* among the items of s, those with equal keys appear in the order of
\* their insertion stamps
TiesInInsertionOrder(s) ==
    \A i \in DOMAIN s, j \in DOMAIN s :
        (i < j /\ s[i][1] = s[j][1]) => s[i][2] < s[j][2]

\* history: of any two live ids the smaller one was handed out first
IdsInInsertionOrder ==
    \A a \in DOMAIN shadow, b \in DOMAIN shadow :
        a < b => shadow[a][2] < shadow[b][2]

C16_StrictTotalOrder ==
    (op.name = "cmp" /\ op.a.id # op.b.id /\ op.b.id # op.v.id /\ op.a.id # op.v.id) =>
        /\ (op.ret.ab = "Less") # (op.ret.ba = "Less")
        /\ (op.ret.ab = "Less" /\ op.ret.bc = "Less") => op.ret.ac = "Less"

----------------------------------------------------------------------------
(* Properties of the concurrent SlotMap.                                    *)

\* the <<id, value>> pairs thread t received from insert and has not yet
\* passed to a remove that returned
Held(th) == {th.ids[i] : i \in (th.removed + 1)..Len(th.ids)}

RECURSIVE SumRemoved(_, _)
SumRemoved(ths, n) == IF n = 0 THEN 0 ELSE ths[n].removed + SumRemoved(ths, n - 1)

\* get(id) on a map no thread is calling
SyncSlotMap_get_quiet(m, id) ==
    LET sp == SyncSlotMap_split(m, id) IN
    SlotMap_get(ShardAt(m, sp[1]).inner, sp[2])

\* C17: with NumThreads threads each making OpsPerThread inserts and then
\* OpsPerThread removes of the ids it received, in every interleaving the
\* ids held at one time are pairwise distinct, every remove returns the
\* value its thread stored under the id, and when all threads have finished
\* NumThreads * OpsPerThread removes have succeeded, every id is dead,
\* is_empty() is true and len() is 0.
C17_NoLoss ==
    [][ /\ \A t \in Threads, u \in Threads :
                \A x \in Held(threads'[t]), y \in Held(threads'[u]) :
                    (x[1] = y[1]) => (t = u /\ x = y)
        /\ \A t \in Threads :
                Cardinality(Held(threads'[t])) = Len(threads'[t].ids) - threads'[t].removed
        /\ \A t \in Threads :
                (threads[t].pc = "idle" /\ threads'[t].pc # "idle" /\ threads'[t].name = "remove")
                    => threads'[t].ret = Some(threads[t].ids[threads[t].removed + 1][2])
        /\ (\A t \in Threads : threads'[t].done = 2 * OpsPerThread) =>
                /\ SumRemoved(threads', NumThreads) = NumThreads * OpsPerThread
                /\ SyncSlotMap_is_empty(smap')
                /\ SyncSlotMap_len(smap') = 0
                /\ \A t \in Threads : \A i \in DOMAIN threads'[t].ids :
                        SyncSlotMap_get_quiet(smap', threads'[t].ids[i][1]) = None ]_vars

\* all threads have finished, and two of the values had been stored in one
\* shard at the same time
C17_Witness ==
    /\ \A t \in Threads : threads[t].done = 2 * OpsPerThread
    /\ SumRemoved(threads, NumThreads) = NumThreads * OpsPerThread
    /\ \E i \in DOMAIN smap.shards : Len(smap.shards[i].inner.entries) >= 2

\* the shard whose lock thread th is about to take, or NoArg
WaitsFor(th) ==
    CASE th.pc = "swap_first" ->
            IF SyncSlotMap_split(smap, th.a)[1] = SyncSlotMap_split(smap, th.b)[1]
            THEN SyncSlotMap_split(smap, th.a)[1]
            ELSE SwapFirstShard(smap, th.a, th.b, th.reverse)
      [] th.pc = "swap_second" -> SwapSecondShard(smap, th.a, th.b, th.reverse)
      [] th.pc = "insert_lock" -> th.shard
      [] th.pc = "clear_next" -> th.i
      [] OTHER -> NoArg

\* the threads that hold a guard of the shard
Holders(sh) == (IF sh.writer = 0 THEN {} ELSE {sh.writer}) \cup sh.readers

\* thread t is inside write() and the lock is not free
Blocked(t) ==
    /\ WaitsFor(threads[t]) # NoArg
    /\ ~CanWrite(ShardAt(smap, WaitsFor(threads[t])))

\* a set of threads each of which waits for a lock a thread of the set holds
CyclicWait ==
    \E S \in (SUBSET Threads) \ {{}} :
        \A t \in S :
            /\ Blocked(t)
            /\ Holders(ShardAt(smap, WaitsFor(threads[t]))) \cap S # {}

InSwap(t) == threads[t].name = "swap" /\ threads[t].pc # "idle"

\* C18: when every swap call passes the same `reverse`, no reachable state of
\* threads that call swap on arbitrary id pairs, insert, remove, get,
\* get_mut, contains and clear has a set of threads waiting on each other's
\* shard locks, and under fair scheduling every swap that was entered
\* returns.
C18_SwapDeadlockFree ==
    /\ []~CyclicWait
    /\ \A t \in Threads : InSwap(t) ~> (threads[t].pc = "idle")

\* two cross-shard swaps name the same two shards in opposite orders, one
\* holds the first lock of the order and the other waits for it
C18_Witness ==
    \E t, u \in Threads :
        /\ t # u
        /\ threads[t].pc = "swap_second"
        /\ threads[u].pc = "swap_first"
        /\ SyncSlotMap_split(smap, threads[t].a)[1] = SyncSlotMap_split(smap, threads[u].b)[1]
        /\ SyncSlotMap_split(smap, threads[t].b)[1] = SyncSlotMap_split(smap, threads[u].a)[1]
        /\ Blocked(u)
        /\ Holders(ShardAt(smap, WaitsFor(threads[u]))) = {t}

\* how many ids hold value v in the content f
CountOf(f, v) == Cardinality({id \in DOMAIN f : f[id] = v})

SameValues(f, g) ==
    \A v \in {f[id] : id \in DOMAIN f} \cup {g[id] : id \in DOMAIN g} :
        CountOf(f, v) = CountOf(g, v)

\* thread t's swap makes its exchange in this step
SwapSucceeds(t) ==
    /\ threads[t].name = "swap"
    /\ threads[t].ret = None
    /\ threads'[t].ret # None

\* C19: while threads call swap (same-shard and cross-shard) on live ids,
\* the set of live ids, every shard's live count and the multiset of the
\* stored values stay what they were when the threads started; the step in
\* which a swap succeeds exchanges the values of its two ids and changes
\* nothing else, and no other step changes a value.
C19_SwapPreservesContent ==
    [][~Unspawned' =>
        LET before == Content(smap)
            after == Content(smap')
        IN
        /\ DOMAIN after = DOMAIN shadow'
        /\ \A i \in DOMAIN smap'.shards :
                /\ smap'.shards[i].len =
                        Cardinality({id \in DOMAIN shadow' :
                                        SyncSlotMap_split(smap', id)[1] = i - 1})
                /\ SlotMap_len(smap'.shards[i].inner) = smap'.shards[i].len
        /\ SameValues(after, shadow')
        /\ \A t \in Threads :
                (~Unspawned /\ SwapSucceeds(t)) =>
                    after = [before EXCEPT ![threads[t].a] = before[threads[t].b],
                                           ![threads[t].b] = before[threads[t].a]]
        /\ (~Unspawned /\ after # before) => \E t \in Threads : SwapSucceeds(t)]_vars

\* a cross-shard swap has exchanged two different values and returned while
\* the other thread holds one lock of its own cross-shard swap
C19_Witness ==
    \E t, u \in Threads :
        /\ t # u
        /\ threads[t].name = "swap" /\ threads[t].pc = "idle"
        /\ threads[t].ret # None
        /\ SyncSlotMap_split(smap, threads[t].a)[1] # SyncSlotMap_split(smap, threads[t].b)[1]
        /\ threads[u].pc = "swap_second"
        /\ Content(smap) # shadow

\* n is 2^e for some e, said without the bit count
PowerOfTwo(n) == \E e \in 0..30 : 2^e = n

\* C20: with_num_shards(n) returns a map whose num_shards() is n exactly when
\* n is a power of two and n >= 4, and None for every other n.
C20_WithNumShards ==
    op.name = "with_num_shards" =>
        IF PowerOfTwo(op.a) /\ op.a >= 4
        THEN op.ret = Some(op.a) /\ Len(smap.shards) = op.a
        ELSE op.ret = None

\* a power of two above the minimum was asked for and a map was returned
C20_Witness ==
    /\ op.name = "with_num_shards"
    /\ op.a > MinShards
    /\ op.ret # None

----------------------------------------------------------------------------
(* Properties of the concurrent SlotMap: counts and lazy inserts.           *)

\* no call is in progress and no guard or LazyInsert is outstanding
Quiescent ==
    \/ \A t \in DOMAIN threads : threads[t].pc = "idle"
    \/ \A t \in DOMAIN threads : threads[t].pc = "unspawned"

\* completed inserts and commits minus successful removes, as the threads
\* counted them
RECURSIVE SumNet(_, _)
SumNet(ths, n) ==
    IF n = 0 THEN 0 ELSE Len(ths[n].ids) - ths[n].removed + SumNet(ths, n - 1)

\* completed inserts and commits minus successful removes: before the
\* threads start every select_shard call belongs to a completed insert
NetCalls ==
    IF Unspawned THEN smap.rr ELSE Populated + SumNet(threads, NumThreads)

\* the slots of all shards that hold a value
RECURSIVE LiveCount(_, _)
LiveCount(shards, n) ==
    IF n = 0 THEN 0
    ELSE Cardinality({k \in DOMAIN shards[n].inner.entries :
                        shards[n].inner.entries[k].ok})
         + LiveCount(shards, n - 1)

\* C21: whenever no call is in progress and no guard or reservation is
\* outstanding, len() is the number of live entries of all shards, which is
\* the number of completed inserts (those that filled the map included) and
\* commits minus the successful removes, and is_empty() is true iff that
\* number is 0.
C21_LenAtQuiescence ==
    Quiescent =>
        /\ SyncSlotMap_len(smap) = LiveCount(smap.shards, Len(smap.shards))
        /\ SyncSlotMap_len(smap) = NetCalls
        /\ SyncSlotMap_is_empty(smap) <=> (NetCalls = 0)

\* the threads are done: one of them removed an entry and then dropped a
\* reservation, the other ended with a commit
C21_Witness ==
    /\ \A t \in Threads : threads[t].pc = "idle" /\ threads[t].done = MaxOps
    /\ \E t, u \in Threads :
            /\ threads[t].removed = 1
            /\ threads[t].name = "lazy_insert" /\ threads[t].v = NoArg
            /\ threads[u].name = "lazy_insert" /\ threads[u].v # NoArg
            /\ Len(threads[u].ids) = 1

\* thread th holds a LazyInsert that is not yet released
Reserving(th) == th.pc \in {"lazy_held", "lazy_add", "lazy_unlock"}

\* contains(id) on a map no thread is calling
SyncSlotMap_contains_quiet(m, id) ==
    LET sp == SyncSlotMap_split(m, id) IN
    SlotMap_contains(ShardAt(m, sp[1]).inner, sp[2])

\* C22: lazy_insert() leaves len() and every shard's count as they were and
\* returns an id that is not live and whose shard stays write-locked by the
\* caller, so that no other thread changes or reads that shard before the
\* handle is released; commit(v) stores v without changing the counts, then
\* adds exactly one to the shard's count and to len(), and when it returns
\* the write lock is free, get(id) yields v and contains(id) is true.
C22_LazyCommit ==
    [][\A t \in Threads :
        LET th == threads[t]
            after == threads'[t]
            sh == ShardAt(smap, after.shard)
            sh_after == ShardAt(smap', after.shard)
        IN
        /\ (th.pc = "lazy_lock" /\ after.pc = "lazy_held") =>
                /\ SyncSlotMap_len(smap') = SyncSlotMap_len(smap)
                /\ sh_after.len = sh.len
                /\ ~SyncSlotMap_contains_quiet(smap', after.ret[1])
                /\ SyncSlotMap_split(smap', after.ret[1]) = <<after.shard, after.id>>
        /\ after.pc = "lazy_held" =>
                /\ sh_after.writer = t
                /\ ~SyncSlotMap_contains_quiet(smap', after.ret[1])
        /\ (Reserving(th) /\ Reserving(after) /\ after.pc = th.pc) =>
                sh_after = sh
        /\ (th.pc = "lazy_held" /\ after.pc = "lazy_add") =>
                /\ SyncSlotMap_len(smap') = SyncSlotMap_len(smap)
                /\ sh_after.len = sh.len
        /\ (th.pc = "lazy_add" /\ after.pc = "lazy_unlock") =>
                /\ SyncSlotMap_len(smap') = SyncSlotMap_len(smap) + 1
                /\ sh_after.len = sh.len + 1
        /\ (th.pc = "lazy_unlock" /\ after.pc = "idle" /\ th.v # NoArg) =>
                /\ sh_after.writer = 0
                /\ sh_after.len = sh.len
                /\ SyncSlotMap_get_quiet(smap', th.ret[1]) = Some(th.v)
                /\ SyncSlotMap_contains_quiet(smap', th.ret[1]) ]_vars

\* a commit has returned: its id is one that was live when the threads
\* started and was removed since, and its value is live under it
C22_Witness ==
    \E t \in Threads :
        /\ threads[t].pc = "idle" /\ threads[t].name = "lazy_insert"
        /\ threads[t].v # NoArg
        /\ threads[t].ret[1] \in DOMAIN shadow
        /\ SyncSlotMap_get_quiet(smap, threads[t].ret[1]) = Some(threads[t].v)

\* C23: when a LazyInsert is dropped without commit, no count changes, and
\* when the drop returns the write lock is free, the reserved slot is the
\* head of its shard's free list, the free-list invariant of the shard
\* holds, the id is not live (contains false, get None, remove None and
\* without effect), and an insert into that shard returns the same id.
C23_LazyAbandon ==
    [][\A t \in Threads :
        LET th == threads[t]
            after == threads'[t]
            sh == ShardAt(smap, th.shard)
            sh_after == ShardAt(smap', th.shard)
            id == th.ret[1]
        IN
        /\ (th.pc = "lazy_held" /\ after.pc = "lazy_unlock") =>
                /\ sh_after.len = sh.len
                /\ SlotMap_len(sh_after.inner) = SlotMap_len(sh.inner)
                /\ SyncSlotMap_len(smap') = SyncSlotMap_len(smap)
        /\ (th.pc = "lazy_unlock" /\ after.pc = "idle" /\ th.v = NoArg) =>
                /\ sh_after.writer = 0
                /\ sh_after.len = sh.len
                /\ SyncSlotMap_len(smap') = SyncSlotMap_len(smap)
                /\ sh_after.len = Cardinality(LiveIds(sh_after.inner))
                /\ sh_after.inner.next = th.id
                /\ FreeListOK(sh_after.inner)
                /\ ~SyncSlotMap_contains_quiet(smap', id)
                /\ SyncSlotMap_get_quiet(smap', id) = None
                /\ SlotMap_remove(sh_after.inner, th.id) = [m |-> sh_after.inner, ret |-> None]
                /\ SyncSlotMap_merge(smap', th.shard,
                                     SlotMap_insert(sh_after.inner, 0).id) = id ]_vars

\* a reservation was dropped, and the insert that followed was routed to
\* the same shard and returned the id of the reservation
C23_Witness ==
    \E t, u \in Threads :
        /\ threads[t].pc = "idle" /\ threads[t].name = "lazy_insert"
        /\ threads[t].v = NoArg /\ threads[t].ret # None
        /\ threads[u].pc = "idle" /\ threads[u].name = "insert"
        /\ threads[u].ret = threads[t].ret

----------------------------------------------------------------------------
(* Properties of the concurrent SlotHeap.                                   *)

HeapWriters == {t \in DOMAIN threads : threads[t].pc \in {"heap_write", "heap_guard"}}

\* C24: a mutation guard keeps the write lock from its creation until its
\* drop has re-heapified, so that every operation a thread starts (reading
\* or writing) executes against a heap that satisfies the heap order and
\* the index mirror; at most one thread is inside a writing method or holds
\* a mutation guard, and then no thread reads; the heap is changed only by
\* that thread, so the operations take effect one after the other in the
\* order in which they obtained the lock.
C24_HeapAtomicity ==
    [][ /\ \A t \in Threads :
                (threads[t].pc = "idle" /\ threads'[t].pc # "idle") =>
                    HeapOrder(heap) /\ IndexMirror(heap)
        /\ Cardinality(HeapWriters') <= 1
        /\ HeapWriters' # {} => HeapReaders' = {}
        /\ rwlock'.locked <=> HeapWriters' # {}
        /\ guard' # NoGuard <=> \E t \in Threads : threads'[t].pc = "heap_guard"
        /\ heap' # heap =>
                \E t \in HeapWriters' :
                    \A u \in Threads \ {t} :
                        threads'[u] = threads[u] /\ threads[u].pc = "idle" ]_vars

\* a thread's guard lends an element whose new key breaks the heap order
\* while the other threads are between calls
C24_Witness ==
    \E t \in Threads :
        /\ threads[t].pc = "heap_guard"
        /\ guard.dirty
        /\ ~HeapOrder(heap)
        /\ \A u \in Threads \ {t} : threads[u].pc = "idle"

----------------------------------------------------------------------------
(* Properties of the id packing.                                            *)

\* log2 of a power of two, said without the bit operations
Log2(n) == CHOOSE e \in 0..30 : 2^e = n

\* C25: for S shards, every shard index s < S and every inner id
\* i < 2^(w - log2 S), split(merge(s, i)) = (s, i) and the exposed id
\* modulo S is s; an id returned by insert is not the id of another live
\* entry, its value is stored in the shard named by its low bits, get(id)
\* yields the inserted value as long as the entry is live, remove(id)
\* returns it, and the live entries have as many exposed ids as there are
\* entries.
C25_IdPacking ==
    [][ /\ op'.name = "merge" =>
            LET S == SyncSlotMap_num_shards(smap') IN
            op'.b < 2^(WordBits - Log2(S)) =>
                /\ op'.ret[2] = <<op'.a, op'.b>>
                /\ op'.ret[1] % S = op'.a
                /\ op'.ret[1] \div S = op'.b
        /\ op'.name = "insert" =>
            LET id == op'.ret[1]
                S == SyncSlotMap_num_shards(smap')
            IN  /\ id \notin DOMAIN shadow
                /\ SlotMap_get(smap'.shards[(id % S) + 1].inner, id \div S) = Some(op'.v)
                /\ SlotMap_get(smap.shards[(id % S) + 1].inner, id \div S) = None
        /\ (op'.name = "remove" /\ op'.a \in DOMAIN shadow) =>
                op'.ret = Some(shadow[op'.a])
        /\ (op'.name = "remove" /\ op'.a \notin DOMAIN shadow) => op'.ret = None
        /\ smap' # NotBuilt =>
                /\ \A id \in DOMAIN shadow' : SyncSlotMap_get_quiet(smap', id) = Some(shadow'[id])
                /\ \A id \in PackedIds \ DOMAIN shadow' : SyncSlotMap_get_quiet(smap', id) = None
                /\ Cardinality(DOMAIN shadow') = LiveCount(smap'.shards, Len(smap'.shards)) ]_vars

\* an id of the second round of a shard is returned while an id of the
\* first round names a value inserted after the first round: it was removed
\* and handed out again
C25_Witness ==
    /\ smap # NotBuilt
    /\ op.name = "insert"
    /\ op.ret[1] >= SyncSlotMap_num_shards(smap)
    /\ \E id \in DOMAIN shadow :
            /\ id < SyncSlotMap_num_shards(smap)
            /\ shadow[id] >= SyncSlotMap_num_shards(smap)

----------------------------------------------------------------------------
(* Properties of the shard selection.                                       *)

\* the i-th shard a call examines when it starts from counter value base
Candidate(S, base, i) == (base + i * (S \div 4)) % S

\* the position of the earliest smallest count in a sequence of reads
EarliestMin(reads) ==
    CHOOSE i \in DOMAIN reads :
        /\ \A j \in DOMAIN reads : reads[i][2] <= reads[j][2]
        /\ \A j \in 1..(i - 1) : reads[j][2] > reads[i][2]

\* what the claim says of one step of thread t, the candidates being counted
\* from the counter value the call's fetch_add returned plus off
SelectionStep(t, off) ==
    LET th == threads[t]
        S == SyncSlotMap_num_shards(smap)
        index == Candidate(S, th.rr + off, th.i)
        all == Append(th.reads, <<index, smap.shards[index + 1].len>>)
    IN  /\ (th.pc = "idle" /\ threads'[t].pc = "select") =>
                /\ smap'.rr = smap.rr + 1
                /\ threads'[t].rr = smap.rr
                /\ threads'[t].reads = <<>>
        /\ (th.pc = "select" /\ threads'[t] # th) =>
                /\ Len(th.reads) = th.i
                /\ smap' = smap
                /\ th.i < 3 => (threads'[t].pc = "select" /\ threads'[t].reads = all)
                /\ th.i = 3 =>
                        /\ threads'[t].pc \in {"insert_lock", "lazy_lock"}
                        /\ threads'[t].shard = all[EarliestMin(all)][1]
        /\ (th.pc \in {"insert_lock", "lazy_lock"} /\ threads'[t] # th) =>
                smap'.shards[th.shard + 1].writer = t

\* C26 as stated: the four shards are counted from the counter's
\* post-increment value
C26_SelectFromPostIncrement == [][\A t \in Threads : SelectionStep(t, 1)]_vars

\* C26: each insert / lazy_insert increments the round-robin counter by one
\* in one step and examines exactly the four shards at offsets 0, S/4, S/2
\* and 3S/4 (modulo S) from the value the counter had before the increment;
\* it locks the candidate whose count it read smallest, the earliest of the
\* four among equal counts; the four candidates are pairwise distinct.
C26_SelectFromPreIncrement ==
    [][ /\ \A t \in Threads : SelectionStep(t, 0)
        /\ \A i, j \in 0..3 :
                i # j => Candidate(SyncSlotMap_num_shards(smap), smap.rr, i)
                            # Candidate(SyncSlotMap_num_shards(smap), smap.rr, j) ]_vars

\* a call has locked the third candidate, whose count was the only smallest
C26_Witness ==
    \E t \in Threads :
        /\ threads[t].pc \in {"insert_add", "lazy_held"}
        /\ threads[t].shard =
                Candidate(SyncSlotMap_num_shards(smap), threads[t].rr, 2)
        /\ smap.shards[threads[t].shard + 1].writer = t

----------------------------------------------------------------------------
(* Properties of the shard counters.                                        *)

\* the step changes the count of the shard with index s - 1 as one of the
\* calls that may change it: an insert or a commit that has stored its value,
\* a remove that has received a value, or clear
CounterStep(s) ==
    LET before == smap.shards[s].len
        after == smap'.shards[s].len
    IN  after # before =>
            \/ Unspawned /\ after = before + 1
            \/ \E t \in Threads :
                    /\ threads[t].pc \in {"insert_add", "lazy_add"}
                    /\ threads[t].shard = s - 1
                    /\ threads'[t].pc \in {"insert_ret", "lazy_unlock"}
                    /\ SlotMap_get(smap.shards[s].inner, threads[t].id) = Some(threads[t].v)
                    /\ after = before + 1
            \/ \E t \in Threads :
                    /\ threads[t].pc = "remove_sub"
                    /\ threads[t].shard = s - 1
                    /\ threads[t].ret # None
                    /\ after = before - 1
            \/ \E t \in Threads :
                    /\ threads[t].pc = "clear_store"
                    /\ threads[t].i = s - 1
                    /\ after = 0

\* a step of a remove by thread t
RemoveStep(t) ==
    /\ threads'[t] # threads[t]
    /\ threads'[t].name = "remove"

\* C27: a shard's count changes only by +1 in an insert or a lazy-insert
\* commit that has stored its value, by -1 in a remove that has received a
\* value, and to 0 in clear; no step of a remove that returns None changes a
\* count or a shard's content; a remove that receives a value receives the
\* one stored under the id, leaves the id dead and decrements the count of
\* its shard once; and two threads whose last calls are removes never hold
\* the same value, each value being inserted once.
C27_CounterTransitions ==
    [][ /\ \A s \in DOMAIN smap.shards : CounterStep(s)
        /\ \A t \in Threads :
                (RemoveStep(t) /\ threads'[t].ret = None) =>
                    \A s \in DOMAIN smap.shards :
                        /\ smap'.shards[s].len = smap.shards[s].len
                        /\ smap'.shards[s].inner = smap.shards[s].inner
        /\ \A t \in Threads :
                (RemoveStep(t) /\ threads[t].pc = "idle" /\ threads'[t].ret # None) =>
                    /\ threads'[t].pc = "remove_sub"
                    /\ SyncSlotMap_get_quiet(smap, threads'[t].a) = threads'[t].ret
                    /\ ~SyncSlotMap_contains_quiet(smap', threads'[t].a)
        /\ \A t \in Threads :
                (RemoveStep(t) /\ threads[t].pc = "remove_sub") =>
                    /\ threads'[t].pc = "unlock"
                    /\ smap'.shards[threads[t].shard + 1].len
                            = smap.shards[threads[t].shard + 1].len - 1
        /\ \A t, u \in Threads :
                (/\ t # u
                 /\ threads'[t].name = "remove" /\ threads'[t].ret # None
                 /\ threads'[u].name = "remove" /\ threads'[u].ret # None)
                    => threads'[t].ret # threads'[u].ret ]_vars

\* two threads have removed the same id, which was live at the start: one
\* has received the value and decremented the count, the other, which waited
\* for the lock meanwhile, has received None
C27_Witness ==
    \E t, u \in Threads :
        /\ t # u
        /\ threads[t].name = "remove" /\ threads[u].name = "remove"
        /\ threads[t].a = threads[u].a
        /\ threads[t].a \in DOMAIN shadow
        /\ threads[t].ret = Some(shadow[threads[t].a])
        /\ threads[u].ret = None
        /\ threads[t].done = 1 /\ threads[u].done = 1
        /\ threads[t].pc = "idle" /\ threads[u].pc = "idle"

----------------------------------------------------------------------------
(* Properties of clear under insert load.                                   *)

\* clear has released the lock of the shard with index s
Cleared(s) == threads[Clearer].name = "clear" /\ threads[Clearer].i > s

\* the values live in the shard with index s
LiveValues(m, s) ==
    {m.shards[s + 1].inner.entries[i].v :
        i \in {j \in DOMAIN m.shards[s + 1].inner.entries :
                    m.shards[s + 1].inner.entries[j].ok}}

AllFinished ==
    /\ threads[Clearer].pc = "idle" /\ threads[Clearer].done = 1
    /\ \A t \in Threads \ {Clearer} :
            threads[t].pc = "idle" /\ threads[t].done = OpsPerThread

ShardIndexes == 0..(MinShards - 1)

\* C28: clear locks the shards in ascending index order and holds at most
\* one shard lock at any time; once clear has acquired a shard's lock,
\* nothing that was in the shard is live, and a value appears in a shard only
\* in the locked step of the insert that carries it, so what was inserted
\* before stays gone; whatever is live in a shard that clear has released
\* stays live; and when all threads have finished, len() is the number of
\* live entries and none of the values stored before the threads started is
\* live.
C28_ClearUnderLoad ==
    [][ /\ Cardinality({s \in ShardIndexes : smap'.shards[s + 1].writer = Clearer}) <= 1
        /\ \A s \in ShardIndexes :
                (smap.shards[s + 1].writer # Clearer /\ smap'.shards[s + 1].writer = Clearer) =>
                    /\ \A r \in ShardIndexes : Cleared(r) <=> r < s
                    /\ LiveValues(smap', s) = {}
        /\ \A s \in ShardIndexes :
                \A v \in LiveValues(smap', s) \ LiveValues(smap, s) :
                    \/ Unspawned
                    \/ \E t \in Threads \ {Clearer} :
                            /\ threads[t].pc = "insert_lock"
                            /\ threads[t].v = v
                            /\ threads[t].shard = s
                            /\ \A u \in Threads : \A k \in DOMAIN threads[u].ids :
                                    threads[u].ids[k][2] # v
        /\ \A s \in ShardIndexes :
                Cleared(s) => LiveValues(smap, s) \subseteq LiveValues(smap', s)
        /\ AllFinished' =>
                /\ SyncSlotMap_len(smap') = LiveCount(smap'.shards, Len(smap'.shards))
                /\ \A v \in 0..(Populated - 1), s \in ShardIndexes : v \notin LiveValues(smap', s) ]_vars

\* all threads have finished; of the values one inserter stored, one was
\* in its shard when clear acquired it and is gone, and one was stored after
\* clear had released the shard and is live
C28_Witness ==
    /\ AllFinished
    /\ \E t \in Threads \ {Clearer} :
        \E j, k \in DOMAIN threads[t].ids :
            /\ SyncSlotMap_get_quiet(smap, threads[t].ids[j][1]) # Some(threads[t].ids[j][2])
            /\ SyncSlotMap_get_quiet(smap, threads[t].ids[k][1]) = Some(threads[t].ids[k][2])

----------------------------------------------------------------------------
(* Properties of the SlotMap iterators.                                     *)

\* the positions an iterator has yielded
Yielded(it) == {it.yielded[k][1] : k \in DOMAIN it.yielded}

\* what the claims say of a call of next() or next_back() on the
\* outstanding iterator: the live slot nearest to the end the call takes
\* from, among those not yet yielded, comes out, as the item of the
\* iterator's kind; None comes out only when every live slot has been yielded
YieldStep ==
    LET rest == DOMAIN shadow \ Yielded(guard)
        p == IF op'.name = "next"
             THEN CHOOSE q \in rest : \A r \in rest : q <= r
             ELSE CHOOSE q \in rest : \A r \in rest : q >= r
    IN  IF rest = {}
        THEN /\ op'.ret = None
             /\ guard'.len = 0
             /\ guard'.yielded = guard.yielded
        ELSE /\ op'.ret = Some(CASE guard.kind = "ids" -> p
                                 [] guard.kind = "values" -> shadow[p]
                                 [] OTHER -> <<p, shadow[p]>>)
             /\ Yielded(guard') = Yielded(guard) \cup {p}
             /\ Len(guard'.yielded) = Len(guard.yielded) + 1

\* the reported remaining length is the number of live slots not yet yielded
ExactSize(it) ==
    /\ it.len = Cardinality(DOMAIN shadow) - Len(it.yielded)
    /\ it.len = Cardinality(DOMAIN shadow \ Yielded(it))

\* C29: the remaining length of ids() / iter() / values() starts at len()
\* and is, after every call, the number of live slots not yet yielded;
\* next() yields the lowest and next_back() the highest live slot not yet
\* yielded, as id, (id, value) or value, so next() alone yields the live
\* slots in ascending order; no free slot is yielded; in any interleaving of
\* the two calls None is returned exactly when every live slot has been
\* yielded, each once; the map is not changed.
C29_Iteration ==
    [][ (guard'.kind \in IterKinds) =>
            /\ guard = NoGuard => guard'.len = SlotMap_len(map)
            /\ op'.name \in {"next", "next_back"} => YieldStep
            /\ ExactSize(guard')
            /\ Yielded(guard') \subseteq LiveIds(map)
            /\ map' = map ]_vars

\* next() and next_back() have both yielded from a map that has a free slot
\* between two live ones, and the next call returns None
C29_Witness ==
    /\ guard.kind \in IterKinds
    /\ \E p \in Positions(map) : ~At(map.entries, p).ok /\ p > 0 /\ p + 1 < Len(map.entries)
    /\ \E j, k \in DOMAIN guard.yielded :
            guard.yielded[j][2] = "front" /\ guard.yielded[k][2] = "back"
    /\ op.ret = None
    /\ op.name = "next"

\* C30: drain() sets len and next to zero at once; the Drain's remaining
\* length starts at the former len() and next() / next_back() yield exactly
\* the (id, value) pairs that were live at the call, lowest or highest first,
\* each once; once the Drain is dropped, consumed or not, the map has no
\* entry, no live id and a sound free list, and the next insert returns
\* id 0.
C30_Drain ==
    [][ /\ op'.name = "drain" =>
                /\ map'.len = 0
                /\ map'.next = 0
                /\ guard'.len = SlotMap_len(map)
                /\ guard'.yielded = <<>>
        /\ guard'.kind = "drain" =>
                /\ op'.name \in {"next", "next_back"} => YieldStep
                /\ ExactSize(guard')
        /\ op'.name = "drop_drain" =>
                /\ map'.entries = <<>>
                /\ SlotMap_is_empty(map')
                /\ \A id \in Ids : ~SlotMap_contains(map', id)
                /\ FreeListOK(map')
                /\ op'.ret = Some(Cardinality(DOMAIN shadow \ Yielded(guard)))
        /\ (op.name = "drop_drain" /\ op'.name = "insert") => op'.ret = Some(0) ]_vars

\* a Drain that still held a value has been dropped and the map has no entry
C30_Witness ==
    /\ op.name = "drop_drain"
    /\ op.ret # Some(0)
    /\ map.entries = <<>>

----------------------------------------------------------------------------
(* Properties of the single-threaded SlotMap: clear and dense ids.          *)

\* the ids returned by n inserts in a row, starting from m
RECURSIVE InsertIds(_, _)
InsertIds(m, n) ==
    IF n = 0 THEN <<>>
    ELSE <<SlotMap_insert(m, 0).id>> \o InsertIds(SlotMap_insert(m, 0).m, n - 1)

\* C31: after clear() from any reachable state len() is 0, is_empty() is
\* true, no id is live (get, contains and remove refuse every id), the
\* backing sequence and the free list are empty with next = 0, and inserts
\* made from there return the ids 0, 1, 2, ... exactly as from a new map.
C31_Clear ==
    [][ /\ op'.name = "clear" =>
                /\ SlotMap_len(map') = 0
                /\ SlotMap_is_empty(map')
                /\ \A id \in Ids :
                        /\ ~SlotMap_contains(map', id)
                        /\ SlotMap_get(map', id) = None
                        /\ SlotMap_remove(map', id).ret = None
                /\ map'.next = 0
                /\ FreeIds(map') = {}
                /\ FreeChain(map') = <<0>>
                /\ InsertIds(map', MaxSlots + 1) = [i \in 1..(MaxSlots + 1) |-> i - 1]
                /\ InsertIds(map', MaxSlots + 1) = InsertIds(SlotMap_new, MaxSlots + 1)
        /\ (op.name = "clear" /\ op'.name = "insert") => op'.ret = Some(0)
        /\ (op.name = "clear" /\ op'.name \in {"get", "remove", "swap", "get_mut"}) =>
                op'.ret = None ]_vars

\* clear has been called and the map has no slot
C31_Witness ==
    /\ op.name = "clear"
    /\ SlotMap_is_empty(map)
    /\ map.entries = <<>>

Max2(a, b) == IF a >= b THEN a ELSE b

\* C32: every id issued since the last clear or drain and every live id is
\* smaller than the length of the backing sequence; the sequence grows only
\* by one slot, in an insert that finds the free list empty; and its length
\* is the largest number of entries that were live at once since the last
\* clear or drain: 0 after clear or drain, and after every other call the
\* larger of its former length and the new number of live entries.
C32_DenseIds ==
    [][ /\ \A id \in DOMAIN shadow' \cup SeqRange(freed') \cup LiveIds(map') :
                guard'.kind # "drain" => id < Len(map'.entries)
        /\ op'.name = "insert" => op'.ret[1] < Len(map'.entries)
        /\ Len(map'.entries) > Len(map.entries) =>
                /\ op'.name = "insert"
                /\ FreeIds(map) = {}
                /\ freed = <<>>
                /\ Len(map'.entries) = Len(map.entries) + 1
                /\ op'.ret = Some(Len(map.entries))
        /\ Len(map'.entries) =
                IF op'.name \in {"clear", "drain"} THEN 0
                ELSE Max2(Len(map.entries), Cardinality(LiveIds(map'))) ]_vars

\* an insert has reused a freed id while the map has another free slot and
\* the backing sequence is at its largest
C32_Witness ==
    /\ op.name = "insert"
    /\ op.ret # Some(Len(map.entries) - 1)
    /\ FreeIds(map) # {}
    /\ Len(map.entries) = MaxSlots
    /\ Cardinality(LiveIds(map)) < Len(map.entries)

----------------------------------------------------------------------------
(* Properties of the SlotHeap: the order of pops among equal keys.          *)

\* (key, id) pairs in ascending order: by key, by id among equal keys
KeyIdAscending(keys, ids) ==
    \A i \in DOMAIN ids, j \in DOMAIN ids :
        i < j => \/ keys[i] < keys[j]
                 \/ keys[i] = keys[j] /\ ids[i] < ids[j]

\* C33: with totally ordered keys, whatever inserts, pops and removes
\* produced the heap, repeated pop returns every element in the heap, each
\* once, in ascending order of (key, id): elements with equal keys come out
\* in ascending order of their ids.
C33_PopsByKeyThenId ==
    LET ids == PopAllIds(heap)
        keys == PopAllKeys(heap)
    IN  /\ Len(ids) = Cardinality(DOMAIN shadow)
        /\ Len(keys) = Len(ids)
        /\ {ids[i] : i \in DOMAIN ids} = DOMAIN shadow
        /\ \A i \in DOMAIN ids : keys[i] = shadow[ids[i]][1]
        /\ KeyIdAscending(keys, ids)

\* three elements with one key are in the heap, the one with the smallest
\* id inserted last into a slot freed by a pop, the one with the largest id
\* nearer to the root than the middle one
C33_Witness ==
    \E a \in DOMAIN shadow, b \in DOMAIN shadow, c \in DOMAIN shadow :
        /\ a < b /\ b < c
        /\ shadow[a][1] = shadow[b][1] /\ shadow[b][1] = shadow[c][1]
        /\ shadow[a][2] > shadow[b][2] /\ shadow[a][2] > shadow[c][2]
        /\ SlotHeap_get_unchecked_index(heap, c) < SlotHeap_get_unchecked_index(heap, b)

----------------------------------------------------------------------------
(* Properties of the concurrent SlotMap: failed swaps.                      *)

\* inner map and count of every shard
ShardData(m) == [i \in DOMAIN m.shards |-> <<m.shards[i].inner, m.shards[i].len>>]

\* thread t takes a step of a swap
SwapStep(t) ==
    /\ threads'[t] # threads[t]
    /\ threads'[t].name = "swap"

\* the step in which the swap of thread t looks its ids up
SwapDecides(t) ==
    /\ SwapStep(t)
    /\ threads[t].pc \in {"swap_first", "swap_second"}
    /\ threads'[t].pc \in {"unlock", "swap_unlock"}

\* C34: swap(a, b, reverse) returns None exactly when a or b is not live at
\* the time the call holds the locks of their shards, on one shard or on
\* two, the second lookup failing alone included; no step of a swap that
\* returns None changes a value, a count or a free list of any shard; and
\* when the call returns the thread holds no shard lock.
C34_FailedSwap ==
    [][ \A t \in Threads :
        /\ SwapDecides(t) =>
                /\ \A i \in DOMAIN smap'.shards :
                        i - 1 \in {SyncSlotMap_split(smap, threads[t].a)[1],
                                   SyncSlotMap_split(smap, threads[t].b)[1]}
                            => smap'.shards[i].writer = t
                /\ threads'[t].ret = None <=>
                        ~(/\ SyncSlotMap_contains_quiet(smap, threads[t].a)
                          /\ SyncSlotMap_contains_quiet(smap, threads[t].b))
        /\ (SwapStep(t) /\ threads'[t].ret = None) => ShardData(smap') = ShardData(smap)
        /\ (SwapStep(t) /\ threads'[t].pc = "idle") =>
                \A i \in DOMAIN smap'.shards :
                    /\ smap'.shards[i].writer # t
                    /\ t \notin smap'.shards[i].readers ]_vars

\* a swap over two shards has returned None with its first id live and its
\* second id dead, and no shard is locked
C34_Witness ==
    \E t \in Threads :
        /\ threads[t].name = "swap"
        /\ threads[t].pc = "idle"
        /\ threads[t].done = 1
        /\ threads[t].ret = None
        /\ SyncSlotMap_split(smap, threads[t].a)[1] # SyncSlotMap_split(smap, threads[t].b)[1]
        /\ SyncSlotMap_contains_quiet(smap, threads[t].a)
        /\ ~SyncSlotMap_contains_quiet(smap, threads[t].b)
        /\ \A i \in DOMAIN smap.shards : smap.shards[i].writer = 0


(* Properties of the concurrent SlotMap: len under concurrent calls.        *)

\* a step thread t takes inside len()
LenStep(t) == threads'[t].name = "len" /\ threads'[t].i # threads[t].i

\* C35: len() takes no shard lock: a call that has started can always take
\* its next step, whoever holds the shards, and its steps change nothing of
\* the map; it loads the count of every shard once, in shard order, each load
\* giving the shard's count at that instant, and returns the sum of the loads.
\* (That the sum can be a total the map never held is shown by C35_Witness.)
C35_LenSnapshot ==
    /\ [](\A t \in Threads : threads[t].pc = "len" => ENABLED LenLoad(t))
    /\ [][ \A t \in Threads :
            LenStep(t) =>
                LET sofar == IF threads[t].pc = "idle" THEN <<>> ELSE threads[t].reads
                    index == Len(sofar)
                    len == ShardAt(smap, index).len
                IN  /\ smap' = smap
                    /\ \A k \in 1..Len(sofar) : sofar[k][1] = k - 1
                    /\ IF threads'[t].pc = "len"
                       THEN /\ index + 1 < SyncSlotMap_num_shards(smap)
                            /\ threads'[t].reads = Append(sofar, <<index, len>>)
                       ELSE /\ index + 1 = SyncSlotMap_num_shards(smap)
                            /\ threads'[t].pc = "idle"
                            /\ threads'[t].ret = Some(SumReads(sofar) + len) ]_vars

\* one thread's only call, len(), has returned one less than the filled map
\* held, while the only other calls ever made were an insert followed by a
\* remove of the other thread: the map held Populated or Populated + 1 values
\* at every instant
C35_Witness ==
    \E t \in Threads, u \in Threads :
        /\ t # u
        /\ \A w \in Threads \ {t, u} : threads[w].done = 0 /\ threads[w].pc = "idle"
        /\ threads[t].pc = "idle" /\ threads[t].name = "len" /\ threads[t].done = 1
        /\ threads[t].ret = Some(Populated - 1)
        /\ threads[u].pc = "idle" /\ threads[u].name = "remove" /\ threads[u].done = 2
        /\ Len(threads[u].ids) = 1 /\ threads[u].removed = 1
        /\ SyncSlotMap_len(smap) = Populated


(* Properties of the concurrent SlotMap: the lock of an outstanding         *)
(* LazyInsert or get_mut guard.                                             *)

\* thread t holds a LazyInsert handle or a get_mut guard of shard s
Outstanding(t, s) ==
    /\ threads[t].shard = s
    /\ \/ threads[t].pc = "lazy_held"
       \/ threads[t].pc = "unlock" /\ threads[t].name = "get_mut" /\ threads[t].ret # None

\* the shard of an exposed id
TargetShard(id) == SyncSlotMap_split(smap, id)[1]

\* the shard whose lock thread u takes in its next step of swap
SwapTarget(u) ==
    IF threads[u].pc = "swap_second"
    THEN SwapSecondShard(smap, threads[u].a, threads[u].b, threads[u].reverse)
    ELSE SwapFirstShard(smap, threads[u].a, threads[u].b, threads[u].reverse)

\* C36: while a thread holds a LazyInsert handle or a get_mut guard of shard
\* s it is the writer of s, and no other thread can take its locking step of
\* remove, get, contains, get_mut, insert, lazy_insert, swap or clear on s;
\* the same steps on a shard that nobody holds can be taken, and every load
\* of len() and is_empty() can be taken. While a LazyInsert is held, an insert
\* into its shard would not get the reserved id, and no other thread is
\* assigned it.
C36_ReservationLocking ==
    /\ [](\A t \in Threads, s \in ShardIndexes :
            Outstanding(t, s) =>
                /\ ShardAt(smap, s).writer = t
                /\ threads[t].pc = "lazy_held" =>
                        SlotMap_insert(ShardAt(smap, s).inner, 0).id # threads[t].id
                /\ \A u \in Threads \ {t} :
                    /\ \A id \in MapIds :
                        IF TargetShard(id) = s
                        THEN /\ ~ENABLED RemoveLock(u, id)
                             /\ ~ENABLED GetRead(u, id)
                             /\ ~ENABLED ContainsRead(u, id)
                             /\ \A v \in MapValues : ~ENABLED GetMutLock(u, id, v)
                        ELSE (threads[u].pc = "idle" /\ CanWrite(ShardAt(smap, TargetShard(id))))
                                => /\ ENABLED RemoveLock(u, id)
                                   /\ ENABLED GetRead(u, id)
                                   /\ ENABLED ContainsRead(u, id)
                                   /\ \A v \in MapValues : ENABLED GetMutLock(u, id, v)
                    /\ threads[u].pc = "insert_lock" =>
                            (ENABLED InsertLock(u)
                                <=> CanWrite(ShardAt(smap, threads[u].shard)))
                    /\ threads[u].pc = "lazy_lock" =>
                            (ENABLED LazyLock(u)
                                <=> CanWrite(ShardAt(smap, threads[u].shard)))
                    /\ (threads[u].pc \in {"insert_lock", "lazy_lock"} /\ threads[u].shard = s)
                            => ~ENABLED InsertLock(u) /\ ~ENABLED LazyLock(u)
                    /\ threads[u].pc = "swap_first" =>
                            (ENABLED SwapFirst(u) <=> SwapTarget(u) # s
                                                        /\ CanWrite(ShardAt(smap, SwapTarget(u))))
                    /\ threads[u].pc = "swap_second" =>
                            (ENABLED SwapSecond(u) <=> SwapTarget(u) # s
                                                        /\ CanWrite(ShardAt(smap, SwapTarget(u))))
                    /\ threads[u].pc \in {"idle", "clear_next"} =>
                            LET index == IF threads[u].pc = "idle" THEN 0 ELSE threads[u].i
                            IN  ENABLED ClearLock(u)
                                    <=> index # s /\ CanWrite(ShardAt(smap, index))
                    /\ threads[u].pc \in {"idle", "len"} => ENABLED LenLoad(u)
                    /\ threads[u].pc \in {"idle", "is_empty"} => ENABLED IsEmptyLoad(u))
    /\ [][ \A t \in Threads, u \in Threads :
            (/\ t # u
             /\ threads[t].pc = "lazy_held"
             /\ threads[u].pc \in {"insert_lock", "lazy_lock"}
             /\ threads'[u].pc \in {"insert_add", "lazy_held"})
                => SyncSlotMap_merge(smap, threads'[u].shard, threads'[u].id)
                        # threads[t].ret[1] ]_vars

\* a thread holds a LazyInsert of a shard and another thread's clear has
\* arrived at that shard
C36_Witness ==
    \E t \in Threads, u \in Threads :
        /\ threads[t].pc = "lazy_held"
        /\ threads[u].pc = "clear_next"
        /\ threads[u].i = threads[t].shard


(* Properties of the SlotHeap: removal through a dirty guard.               *)

\* the heap with key k stored at the guarded position
WithGuardedKey(h, g, k) ==
    SlotHeap_get_mut_impl_store(h, GuardedId(h, g), <<k, SlotHeap_get(h, GuardedId(h, g))[1][2]>>)

\* C37: on a heap that was heap-ordered under some key of the guarded
\* element, remove() of a PeekMut / PeekKeyMut / RefMut / RefKeyMut whose key
\* was overwritten, with any key of the key type, deletes exactly the guarded
\* element (the root for the peek guards) and returns its current contents
\* (the key alone for the key guards); the id is no longer live, every other
\* element keeps its pair, no guard is left to be dropped, and the remaining
\* heap is heap-ordered and mirrored.
C37_DirtyGuardRemove ==
    [][ (/\ op'.name = "guard_remove"
         /\ guard.dirty
         /\ \E k \in PKeys : HeapOrder(WithGuardedKey(heap, guard, k))) =>
            LET gid == GuardedId(heap, guard)
                item == SlotHeap_get(heap, gid)[1]
            IN  /\ IsPeek(guard) => gid = At(heap.entries, 0).id
                /\ op'.ret = Some(IF IsKeyOnly(guard) THEN item[1] ELSE item)
                /\ item = shadow[gid]
                /\ ~SlotHeap_contains(heap', gid)
                /\ SlotHeap_len(heap') = SlotHeap_len(heap) - 1
                /\ \A id \in GuardedIds \ {gid} :
                        SlotHeap_get(heap', id) = SlotHeap_get(heap, id)
                /\ guard' = NoGuard
                /\ HeapOrder(heap')
                /\ IndexMirror(heap') ]_vars

(* Properties of the SlotHeap: guards that are only read.                    *)

\* C38: the drop of a peek_mut, peek_key_mut, get_mut or get_key_mut guard
\* that was never mutably dereferenced leaves the heap as it was when the
\* guard was taken: the same entries in the same order, the same index map,
\* the same len; nothing is sifted, also where a sift would move an entry.
C38_CleanGuardDrop ==
    [][ (op'.name = "drop" /\ guard # NoGuard /\ ~guard.dirty) =>
            /\ heap'.entries = heap.entries
            /\ heap'.indices = heap.indices
            /\ SlotHeap_len(heap') = SlotHeap_len(heap)
            /\ shadow' = shadow
            /\ guard' = NoGuard ]_vars

\* a clean get_mut / get_key_mut guard of an element below the root was
\* dropped, in a heap where heapify from the element's position would have
\* moved it
C38_Witness ==
    /\ op.name = "drop"
    /\ op.v = FALSE
    /\ op.a # NoArg
    /\ guard = NoGuard
    /\ SlotHeap_get_unchecked_index(heap, op.b) > 0
    /\ SlotHeap_heapify(heap, SlotHeap_get_unchecked_index(heap, op.b)) # heap

(* Properties of the concurrent SlotMap: the counters and the inner maps.    *)

\* C39: in every reachable state of threads that insert, lazily insert and
\* commit or drop, remove and clear, the count of a shard whose write lock is
\* not held equals the number of live entries of its inner map (and the inner
\* map's own len); the count of no shard, held or not, is below zero.
C39_CounterConsistency ==
    \A i \in DOMAIN smap.shards :
        /\ smap.shards[i].len >= 0
        /\ smap.shards[i].writer = 0 =>
                /\ smap.shards[i].len = Cardinality(LiveIds(smap.shards[i].inner))
                /\ smap.shards[i].len = SlotMap_len(smap.shards[i].inner)

\* the threads have finished, one with a clear and one with a committed
\* lazy insert made after the clear had passed its shard: the counts, no lock
\* being held, are those of one live entry
C39_Witness ==
    /\ \A t \in Threads : threads[t].pc = "idle" /\ threads[t].done = MaxOps
    /\ \E t \in Threads, u \in Threads :
        /\ threads[t].name = "clear"
        /\ threads[u].name = "lazy_insert" /\ threads[u].v # NoArg
        /\ SyncSlotMap_contains_quiet(smap, threads[u].ret[1])
    /\ SyncSlotMap_len(smap) = 1

(* Properties of the concurrent containers: locks and absent results.       *)

\* thread t holds no lock of the map
HoldsNoShard(m, t) ==
    \A i \in DOMAIN m.shards : m.shards[i].writer # t /\ t \notin m.shards[i].readers

\* the other threads are between calls
OthersIdle(t) == \A u \in Threads \ {t} : threads[u].pc = "idle"

\* C40: the step in which a get, get_mut, remove or swap of the concurrent
\* SlotMap, or a peek, peek_mut, peek_key_mut, peek_value_mut, get, get_mut,
\* get_key_mut, get_value_mut, pop or remove of the concurrent SlotHeap,
\* returns with the absent result leaves the thread holding no lock of the
\* container and no guard; a thread between calls holds no lock, so that,
\* the other threads being between calls too, it can take the locking step
\* of any further call at once.
C40_AbsentReleasesLocks ==
    /\ [](\A t \in Threads :
            threads[t].pc = "idle" =>
                /\ smap # NotBuilt =>
                        /\ HoldsNoShard(smap, t)
                        /\ OthersIdle(t) =>
                                \A id \in MapIds :
                                    /\ ENABLED RemoveLock(t, id)
                                    /\ ENABLED GetRead(t, id)
                /\ rwlock.wrapped =>
                        /\ rwlock.locked => ~OthersIdle(t)
                        /\ OthersIdle(t) => ENABLED SHPop(t) /\ ENABLED SHPeek(t))
    /\ [][ \A t \in Threads :
            /\ (/\ smap # NotBuilt
                /\ threads[t].pc # "idle" /\ threads'[t].pc = "idle"
                /\ threads'[t].name \in {"get", "get_mut", "remove", "swap"}
                /\ threads'[t].ret = None)
                    => HoldsNoShard(smap', t)
            /\ (/\ rwlock.wrapped
                /\ threads[t].pc \in {"heap_write", "heap_read"}
                /\ threads'[t].pc = "idle"
                /\ ~threads[t].found)
                    => /\ ~rwlock'.locked
                       /\ HeapReaders' = HeapReaders \ {t}
                       /\ guard' = NoGuard
                       /\ heap' = heap
            /\ (rwlock.wrapped /\ threads'[t].pc = "heap_guard") => threads'[t].found ]_vars

\* a thread's get_mut of an id that another thread's call had made dead has
\* returned None: the thread is between calls and every shard is free
C40_Witness ==
    /\ smap # NotBuilt
    /\ \E t \in Threads :
        /\ threads[t].pc = "idle"
        /\ threads[t].name = "get_mut"
        /\ threads[t].ret = None
        /\ threads[t].done = 1
        /\ OthersIdle(t)
        /\ \A i \in DOMAIN smap.shards : CanWrite(smap.shards[i])

====
